---- MODULE Spec2Model ----
(***************************************************************************)
(* Statz, Windows GPU telemetry: the three native backends                 *)
(*   amd/gpu_usage.c, intel/gpu_usage.c, nvidia/gpu_usage.c                *)
(* as one state machine.  A behaviour is one process that has one of the   *)
(* three translation units loaded (backend); its state is that unit's      *)
(* static globals plus the operating-system resources the unit acquires    *)
(* (library reference counts, open counter queries, vendor sessions).      *)
(* Every public entry point (gpu_init, gpu_shutdown, gpu_get_count,        *)
(* gpu_get_info_json, gpu_get_usage) is one action; the results of the     *)
(* platform and vendor calls it makes are inputs drawn from small sets.    *)
(*                                                                         *)
(* Scaling.  TLC integers are 32 bits wide, so the C widths are scaled:    *)
(* an int / uint32_t has IntBits bits, an unsigned long long U64Bits bits. *)
(* Memory sizes are counted in GiB.  float and double values are counted   *)
(* in halves (85 stands for 42.5), so that the (int) cast truncates.       *)
(***************************************************************************)
EXTENDS Integers, Sequences, FiniteSets, TLC

\* ------------------------------------------------------------------ bounds
MaxInits == 2        \* gpu_init calls in one behaviour
MaxDevices == 2      \* largest device count a vendor library reports
MaxCalls == 3        \* public calls in one behaviour
MaxMissing == 1      \* symbols a loadable library may fail to export
MaxModules == 2      \* distinct library images the candidate paths may hold
MaxFirstPath == 1    \* a library that loads does so at one of the first MaxFirstPath paths
IntBits == 12        \* scaled width of int and of a 32-bit unsigned
U64Bits == 14        \* scaled width of unsigned long long

\* --------------------------------------------------------- program constants
NULL == 0
AMD_PATHS == 6
INTEL_PATHS == 6
NVIDIA_PATHS == 3
UTIL_COUNTER_PATHS == 4
MEMORY_COUNTER_PATHS == 3
AMD_FALLBACK_TOTAL == 8      \* 8ULL * 1024 * 1024 * 1024, in GiB

\* ------------------------------------------------------------ C arithmetic
U64Mod == 2 ^ U64Bits
U32Mod == 2 ^ IntBits
INT_MAX == (U32Mod \div 2) - 1

\* conversion to unsigned long long
ToU64(x) == x % U64Mod
\* conversion to uint32_t / unsigned int
ToU32(x) == x % U32Mod
\* (int) cast of an integer value: two's complement wrap
ToInt(x) ==
    LET r == x % U32Mod
    IN  IF r > INT_MAX THEN r - U32Mod ELSE r
\* (int) cast of a float or double (counted in halves): truncation toward zero
Trunc(f) == IF f >= 0 THEN f \div 2 ELSE -((-f) \div 2)

Max(a, b) == IF a >= b THEN a ELSE b

\* ------------------------------------------------------------------- state
\* no document is being built
NoBuffer == [phase |-> "none", device_count |-> 0, buffer_size |-> 0, i |-> 0, written |-> 0]

VARIABLES
    backend,    \* which translation unit this process runs: "amd", "intel", "nvidia"
    amd,        \* static globals of amd/gpu_usage.c
    intel,      \* static globals of intel/gpu_usage.c
    nvidia,     \* static globals of nvidia/gpu_usage.c
    os,         \* resources held from the platform
    last,       \* the latest public call: name, return value, document, calls made
    crashed,    \* the process faulted (call through a NULL or stale pointer)
    session,    \* how the caller's session stands: "none", "ok" (the latest
                \* gpu_init returned 0), "failed" (it returned a negative value)
    paired,     \* every gpu_init so far was made with no session open: the first
                \* call, or the first gpu_init after a gpu_shutdown
    heldAtInit, \* what was held from the platform when the latest gpu_init was
                \* called
    nInits,     \* gpu_init calls made so far
    nCalls,     \* public calls made so far
    json_buffer \* byte accounting of the document gpu_get_info_json is building:
                \* buffer_size allocated, bytes written, loop index

vars == <<backend, amd, intel, nvidia, os, last, crashed, session, paired, heldAtInit, nInits, nCalls, json_buffer>>

\* one platform or vendor call made by a handler, in order
Ev(c, a, ok) == [call |-> c, arg |-> a, ok |-> ok]

\* the platform's view: references held on each library image, open counter
\* queries, vendor sessions (AGS contexts, IGCL / NVML initialisations) open,
\* the number of devices an initialised IGCL / NVML library sees, and the
\* releases that were applied to something not held
OsInit ==
    [libRefs |-> [h \in 1..MaxModules |-> 0],
     queries |-> {},
     nextQuery |-> 1,
     vendorLive |-> 0,
     devices |-> 0,
     badRelease |-> 0]

\* LoadLibraryA succeeded on image h
OsLoad(o, h) == [o EXCEPT !.libRefs[h] = @ + 1]
\* FreeLibrary(h)
OsFree(o, h) ==
    IF h \in DOMAIN o.libRefs /\ o.libRefs[h] > 0
    THEN [o EXCEPT !.libRefs[h] = @ - 1]
    ELSE [o EXCEPT !.badRelease = @ + 1]
\* PdhOpenQueryA succeeded: a new query handle
OsOpenQuery(o) == [o EXCEPT !.queries = @ \cup {o.nextQuery}, !.nextQuery = @ + 1]
\* PdhCloseQuery(q)
OsCloseQuery(o, q) ==
    IF q \in o.queries
    THEN [o EXCEPT !.queries = @ \ {q}]
    ELSE [o EXCEPT !.badRelease = @ + 1]
\* a vendor initialize call succeeded / a vendor de-initialize call ran
OsVendorOpen(o) == [o EXCEPT !.vendorLive = @ + 1]
OsVendorClose(o) ==
    IF o.vendorLive > 0
    THEN [o EXCEPT !.vendorLive = @ - 1]
    ELSE [o EXCEPT !.badRelease = @ + 1]

\* what is held from the platform: a library reference, an open query, a
\* vendor session
Held(o) ==
    [lib |-> \E h \in DOMAIN o.libRefs : o.libRefs[h] > 0,
     query |-> o.queries # {},
     vendor |-> o.vendorLive > 0]
Holds(o) == Held(o).lib \/ Held(o).query \/ Held(o).vendor

\* GetProcAddress(lib, name): the address lies in image lib, or is NULL
GetProcAddress(lib, name, exports) == IF name \in exports THEN lib ELSE NULL

\* a function pointer is NULL, points into an image that is still loaded,
\* or points into an image that was unloaded
PtrStatus(p, o) ==
    IF p = NULL THEN "null"
    ELSE IF o.libRefs[p] = 0 THEN "stale"
    ELSE "live"

\* a call through p faults: always through NULL; through a stale pointer it is
\* undefined, ub chooses between the fault and the call going through
Faults(p, o, ub) ==
    \/ PtrStatus(p, o) = "null"
    \/ PtrStatus(p, o) = "stale" /\ ub = "fault"

UbChoices(p, o) == IF PtrStatus(p, o) = "stale" THEN {"fault", "run"} ELSE {"run"}

\* the candidate paths at which the first loadable library may sit
FirstPaths(n) == 1..(IF MaxFirstPath < n THEN MaxFirstPath ELSE n)

\* the sets of symbols a loadable library exports: all but at most MaxMissing
ExportSets(symbols) ==
    {symbols \ m : m \in {s \in SUBSET symbols : Cardinality(s) <= MaxMissing}}

\* ------------------------------------------------------------ JSON document
\* json_buffer as the pieces that strcpy / strcat / snprintf put into it:
\* the opening text, one piece per record, the commas, the closing text
JsonOpen == [kind |-> "open"]
JsonComma == [kind |-> "comma"]
JsonClose == [kind |-> "close"]
\* the NULL return of gpu_get_info_json (and the document of every other call)
NoDoc == <<[kind |-> "NULL"]>>

IsRecord(t) == t.kind = "record"
\* the records of a document, in order
RECURSIVE Records(_)
Records(doc) ==
    IF doc = <<>> THEN <<>>
    ELSE IF IsRecord(Head(doc)) THEN <<Head(doc)>> \o Records(Tail(doc))
    ELSE Records(Tail(doc))

\* a float or uint formatted into the document: numerator over denominator
Frac(n, d) == <<n, d>>

\* a registered counter's handle: some value other than NULL
COUNTER == 1
\* the AGS context agsInitialize hands out: some value other than NULL
CONTEXT == 1

\* the result of one C function: the globals and platform state it leaves,
\* its return value, the calls it made, and whether it faulted on the way
Res(g, o, ret, tr, fault) == [g |-> g, os |-> o, ret |-> ret, tr |-> tr, fault |-> fault]

\* ===================================================================== AMD
AmdSymbols == {"agsInitialize", "agsDeInitialize", "agsGetGPUMemoryUsage", "agsGetVersionNumber"}

\* the static globals of amd/gpu_usage.c as the loader leaves them
AmdInit ==
    [ags_lib |-> NULL,
     agsInitialize |-> NULL,
     agsDeInitialize |-> NULL,
     agsGetGPUMemoryUsage |-> NULL,
     agsGetVersionNumber |-> NULL,
     ags_context |-> NULL,
     gpu_info |-> [numDevices |-> 0, devices |-> <<>>],
     ags_initialized |-> FALSE,
     query_handle |-> NULL,
     gpu_util_counter |-> NULL,
     gpu_memory_counter |-> NULL,
     perf_counters_initialized |-> FALSE]

\* AGSGPUUsage samples that agsGetGPUMemoryUsage may fill in (floats in halves)
AmdSamples ==
    {[gpuUsagePercent |-> 85, memoryUsedInBytes |-> 2, temperatureInC |-> 121, powerUsageInWatts |-> 301],
     [gpuUsagePercent |-> 301, memoryUsedInBytes |-> 9, temperatureInC |-> 190, powerUsageInWatts |-> 700]}
AmdNoSample ==
    [gpuUsagePercent |-> 0, memoryUsedInBytes |-> 0, temperatureInC |-> 0, powerUsageInWatts |-> 0]
\* one agsGetGPUMemoryUsage call: AGS_SUCCESS with a sample, or an error code
AmdOutcomes ==
    {[ok |-> FALSE, usage |-> AmdNoSample]} \cup {[ok |-> TRUE, usage |-> s] : s \in AmdSamples}

\* the memory a device reports: 8 GiB, or none at all for the odd devices
DeviceTotal(i) == IF i % 2 = 0 THEN 8 ELSE 0
\* AGSGPUInfo as agsInitialize fills it in: n devices
AmdGpuInfo(n) ==
    [numDevices |-> n,
     devices |-> [i \in 1..n |->
                    [adapterString |-> "AMD Radeon", localMemoryInBytes |-> DeviceTotal(i - 1)]]]

\* load_ags leaving ags_lib as it was when no candidate path loads
load_ags_keeps_handle(g, o, k, h, exports) ==
    LET tried == IF k = 0 THEN AMD_PATHS ELSE k
        loads == [i \in 1..tried |-> Ev("LoadLibraryA", i, i = k)]
    IN  IF k = 0
        THEN Res(g, o, -1, loads, FALSE)
        ELSE
          LET g1 == [g EXCEPT
                       !.ags_lib = h,
                       !.agsInitialize = GetProcAddress(h, "agsInitialize", exports),
                       !.agsDeInitialize = GetProcAddress(h, "agsDeInitialize", exports),
                       !.agsGetGPUMemoryUsage = GetProcAddress(h, "agsGetGPUMemoryUsage", exports),
                       !.agsGetVersionNumber = GetProcAddress(h, "agsGetVersionNumber", exports)]
              syms == <<Ev("GetProcAddress:agsInitialize", h, g1.agsInitialize # NULL),
                        Ev("GetProcAddress:agsDeInitialize", h, g1.agsDeInitialize # NULL),
                        Ev("GetProcAddress:agsGetGPUMemoryUsage", h, g1.agsGetGPUMemoryUsage # NULL),
                        Ev("GetProcAddress:agsGetVersionNumber", h, g1.agsGetVersionNumber # NULL)>>
          IN  IF g1.agsInitialize = NULL \/ g1.agsDeInitialize = NULL
              THEN Res([g1 EXCEPT !.ags_lib = NULL], OsFree(OsLoad(o, h), h), -2,
                       loads \o syms \o <<Ev("FreeLibrary", h, TRUE)>>, FALSE)
              ELSE Res(g1, OsLoad(o, h), 0, loads \o syms, FALSE)

\* load_ags: k is the first candidate path that loads (0: none), h the image
\* found there, exports the symbols that image exports
load_ags(g, o, k, h, exports) ==
    LET tried == IF k = 0 THEN AMD_PATHS ELSE k
        loads == [i \in 1..tried |-> Ev("LoadLibraryA", i, i = k)]
    IN  IF k = 0
        THEN Res([g EXCEPT !.ags_lib = NULL], o, -1, loads, FALSE)
        ELSE
          LET g1 == [g EXCEPT
                       !.ags_lib = h,
                       !.agsInitialize = GetProcAddress(h, "agsInitialize", exports),
                       !.agsDeInitialize = GetProcAddress(h, "agsDeInitialize", exports),
                       !.agsGetGPUMemoryUsage = GetProcAddress(h, "agsGetGPUMemoryUsage", exports),
                       !.agsGetVersionNumber = GetProcAddress(h, "agsGetVersionNumber", exports)]
              syms == <<Ev("GetProcAddress:agsInitialize", h, g1.agsInitialize # NULL),
                        Ev("GetProcAddress:agsDeInitialize", h, g1.agsDeInitialize # NULL),
                        Ev("GetProcAddress:agsGetGPUMemoryUsage", h, g1.agsGetGPUMemoryUsage # NULL),
                        Ev("GetProcAddress:agsGetVersionNumber", h, g1.agsGetVersionNumber # NULL)>>
          IN  IF g1.agsInitialize = NULL \/ g1.agsDeInitialize = NULL
              THEN Res([g1 EXCEPT !.ags_lib = NULL], OsFree(OsLoad(o, h), h), -2,
                       loads \o syms \o <<Ev("FreeLibrary", h, TRUE)>>, FALSE)
              ELSE Res(g1, OsLoad(o, h), 0, loads \o syms, FALSE)

\* init_performance_counters without its first PdhCollectQueryData and Sleep
init_performance_counters_no_warmup(g, o, pin) ==
    IF ~pin.openOk
    THEN Res(g, o, -1, <<Ev("PdhOpenQueryA", NULL, FALSE)>>, FALSE)
    ELSE
      LET q == o.nextQuery
          o1 == OsOpenQuery(o)
          utilTried == IF pin.u = 0 THEN UTIL_COUNTER_PATHS ELSE pin.u
          memTried == IF pin.m = 0 THEN MEMORY_COUNTER_PATHS ELSE pin.m
          adds == [i \in 1..utilTried |-> Ev("PdhAddCounterA:util", i, i = pin.u)]
                  \o [i \in 1..memTried |-> Ev("PdhAddCounterA:memory", i, i = pin.m)]
          g1 == [g EXCEPT
                   !.query_handle = q,
                   !.gpu_util_counter = IF pin.u # 0 THEN COUNTER ELSE @,
                   !.gpu_memory_counter = IF pin.m # 0 THEN COUNTER ELSE @]
          found_counter == pin.u # 0
      IN  IF ~found_counter
          THEN Res([g1 EXCEPT !.query_handle = NULL], OsCloseQuery(o1, q), -2,
                   <<Ev("PdhOpenQueryA", q, TRUE)>> \o adds \o <<Ev("PdhCloseQuery", q, TRUE)>>,
                   FALSE)
          ELSE Res([g1 EXCEPT !.perf_counters_initialized = TRUE], o1, 0,
                   <<Ev("PdhOpenQueryA", q, TRUE)>> \o adds, FALSE)

\* init_performance_counters failing unless a memory counter registered too
init_performance_counters_needs_memory(g, o, pin) ==
    IF ~pin.openOk
    THEN Res(g, o, -1, <<Ev("PdhOpenQueryA", NULL, FALSE)>>, FALSE)
    ELSE
      LET q == o.nextQuery
          o1 == OsOpenQuery(o)
          utilTried == IF pin.u = 0 THEN UTIL_COUNTER_PATHS ELSE pin.u
          memTried == IF pin.m = 0 THEN MEMORY_COUNTER_PATHS ELSE pin.m
          adds == [i \in 1..utilTried |-> Ev("PdhAddCounterA:util", i, i = pin.u)]
                  \o [i \in 1..memTried |-> Ev("PdhAddCounterA:memory", i, i = pin.m)]
          g1 == [g EXCEPT
                   !.query_handle = q,
                   !.gpu_util_counter = IF pin.u # 0 THEN COUNTER ELSE @,
                   !.gpu_memory_counter = IF pin.m # 0 THEN COUNTER ELSE @]
          found_counter == pin.u # 0 /\ pin.m # 0
      IN  IF ~found_counter
          THEN Res([g1 EXCEPT !.query_handle = NULL], OsCloseQuery(o1, q), -2,
                   <<Ev("PdhOpenQueryA", q, TRUE)>> \o adds \o <<Ev("PdhCloseQuery", q, TRUE)>>,
                   FALSE)
          ELSE Res([g1 EXCEPT !.perf_counters_initialized = TRUE], o1, 0,
                   <<Ev("PdhOpenQueryA", q, TRUE)>> \o adds
                       \o <<Ev("PdhCollectQueryData", q, TRUE), Ev("Sleep", 100, TRUE)>>,
                   FALSE)

\* init_performance_counters (the same code in amd/ and intel/): pin.openOk is
\* PdhOpenQueryA's result, pin.u the first utilization path that registers
\* (0: none), pin.m the first memory path that registers (0: none).
init_performance_counters(g, o, pin) ==
    IF ~pin.openOk
    THEN Res(g, o, -1, <<Ev("PdhOpenQueryA", NULL, FALSE)>>, FALSE)
    ELSE
      LET q == o.nextQuery
          o1 == OsOpenQuery(o)
          utilTried == IF pin.u = 0 THEN UTIL_COUNTER_PATHS ELSE pin.u
          memTried == IF pin.m = 0 THEN MEMORY_COUNTER_PATHS ELSE pin.m
          adds == [i \in 1..utilTried |-> Ev("PdhAddCounterA:util", i, i = pin.u)]
                  \o [i \in 1..memTried |-> Ev("PdhAddCounterA:memory", i, i = pin.m)]
          g1 == [g EXCEPT
                   !.query_handle = q,
                   !.gpu_util_counter = IF pin.u # 0 THEN COUNTER ELSE @,
                   !.gpu_memory_counter = IF pin.m # 0 THEN COUNTER ELSE @]
          found_counter == pin.u # 0
      IN  IF ~found_counter
          THEN Res([g1 EXCEPT !.query_handle = NULL], OsCloseQuery(o1, q), -2,
                   <<Ev("PdhOpenQueryA", q, TRUE)>> \o adds \o <<Ev("PdhCloseQuery", q, TRUE)>>,
                   FALSE)
          ELSE Res([g1 EXCEPT !.perf_counters_initialized = TRUE], o1, 0,
                   <<Ev("PdhOpenQueryA", q, TRUE)>> \o adds
                       \o <<Ev("PdhCollectQueryData", q, TRUE), Ev("Sleep", 100, TRUE)>>,
                   FALSE)

\* unload_ags
unload_ags(g, o, ub) ==
    LET deinit == g.ags_initialized /\ g.ags_context # NULL /\ g.agsDeInitialize # NULL
        fault == deinit /\ Faults(g.agsDeInitialize, o, ub)
        g1 == IF deinit THEN [g EXCEPT !.ags_context = NULL, !.ags_initialized = FALSE] ELSE g
        o1 == IF deinit THEN OsVendorClose(o) ELSE o
        tr1 == IF deinit THEN <<Ev("agsDeInitialize", g.ags_context, ~fault)>> ELSE <<>>
    IN  IF fault THEN Res(g, o, 0, tr1, TRUE)
        ELSE IF g1.ags_lib # NULL
        THEN Res([g1 EXCEPT !.ags_lib = NULL], OsFree(o1, g1.ags_lib), 0,
                 tr1 \o <<Ev("FreeLibrary", g1.ags_lib, o1.libRefs[g1.ags_lib] > 0)>>, FALSE)
        ELSE Res(g1, o1, 0, tr1, FALSE)

\* cleanup_performance_counters forgetting the query without closing it
cleanup_performance_counters_no_close(g, o) ==
    Res([g EXCEPT !.query_handle = NULL, !.perf_counters_initialized = FALSE], o, 0, <<>>, FALSE)

\* cleanup_performance_counters (the same code in amd/ and intel/)
cleanup_performance_counters(g, o) ==
    LET g1 == [g EXCEPT !.query_handle = NULL, !.perf_counters_initialized = FALSE]
    IN  IF g.query_handle # NULL
        THEN Res(g1, OsCloseQuery(o, g.query_handle), 0,
                 <<Ev("PdhCloseQuery", g.query_handle, g.query_handle \in o.queries)>>, FALSE)
        ELSE Res(g1, o, 0, <<>>, FALSE)

\* gpu_init of amd/gpu_usage.c without the "return 0" of the vendor branch: it
\* goes on to init_performance_counters after agsInitialize succeeded
amd_gpu_init_falls_through(g, o, in) ==
    LET l == load_ags(g, o, in.k, in.h, in.exports)
        callInit == l.ret = 0 /\ l.g.agsInitialize # NULL
        initOk == callInit /\ in.vinit.ok
        tr1 == IF callInit THEN l.tr \o <<Ev("agsInitialize", 5, in.vinit.ok)>> ELSE l.tr
        g1 == IF initOk
              THEN [l.g EXCEPT !.ags_context = CONTEXT, !.gpu_info = in.vinit.info,
                               !.ags_initialized = TRUE]
              ELSE l.g
        o1 == IF initOk THEN OsVendorOpen(l.os) ELSE l.os
        p == init_performance_counters(g1, o1, in.perf)
    IN  Res(p.g, p.os, IF p.ret = 0 THEN 0 ELSE -1, tr1 \o p.tr, FALSE)

\* gpu_init of amd/gpu_usage.c.  in.vinit is what agsInitialize does: its
\* result and, on AGS_SUCCESS, the AGSGPUInfo it fills in (it then also sets
\* the context); in.perf are the inputs of init_performance_counters.
amd_gpu_init(g, o, in) ==
    LET l == load_ags(g, o, in.k, in.h, in.exports)
        callInit == l.ret = 0 /\ l.g.agsInitialize # NULL
        initOk == callInit /\ in.vinit.ok
        tr1 == IF callInit THEN l.tr \o <<Ev("agsInitialize", 5, in.vinit.ok)>> ELSE l.tr
    IN  IF initOk
        THEN Res([l.g EXCEPT !.ags_context = CONTEXT, !.gpu_info = in.vinit.info,
                             !.ags_initialized = TRUE],
                 OsVendorOpen(l.os), 0, tr1, FALSE)
        ELSE
          LET p == init_performance_counters(l.g, l.os, in.perf)
          IN  Res(p.g, p.os, IF p.ret = 0 THEN 0 ELSE -1, tr1 \o p.tr, FALSE)

\* gpu_shutdown of amd/gpu_usage.c
amd_gpu_shutdown(g, o, ub) ==
    LET u == unload_ags(g, o, ub)
        c == cleanup_performance_counters(u.g, u.os)
    IN  IF u.fault THEN u ELSE Res(c.g, c.os, 0, u.tr \o c.tr, FALSE)

\* gpu_get_count of amd/gpu_usage.c answering from gpu_info in every session
amd_gpu_get_count_from_info(g) == g.gpu_info.numDevices

\* gpu_get_count of amd/gpu_usage.c
amd_gpu_get_count(g) == IF g.ags_initialized THEN g.gpu_info.numDevices ELSE 1

\* get_gpu_utilization_perf_counter answering 0 where no query is open
get_gpu_utilization_perf_counter_idle_zero(g, pc) ==
    IF ~g.perf_counters_initialized \/ g.query_handle = NULL
    THEN [ret |-> 0, tr |-> <<>>]
    ELSE IF ~pc.collectOk
    THEN [ret |-> -1, tr |-> <<Ev("PdhCollectQueryData", g.query_handle, FALSE)>>]
    ELSE IF g.gpu_util_counter # NULL
    THEN [ret |-> IF pc.utilValid THEN Trunc(pc.utilValue) ELSE 0,
          tr |-> <<Ev("PdhCollectQueryData", g.query_handle, TRUE),
                   Ev("PdhGetFormattedCounterValue:util", g.gpu_util_counter, pc.utilValid)>>]
    ELSE [ret |-> 0, tr |-> <<Ev("PdhCollectQueryData", g.query_handle, TRUE)>>]

\* get_gpu_utilization_perf_counter answering 0 when PdhCollectQueryData fails
get_gpu_utilization_perf_counter_collect_zero(g, pc) ==
    IF ~g.perf_counters_initialized \/ g.query_handle = NULL
    THEN [ret |-> -1, tr |-> <<>>]
    ELSE IF ~pc.collectOk
    THEN [ret |-> 0, tr |-> <<Ev("PdhCollectQueryData", g.query_handle, FALSE)>>]
    ELSE IF g.gpu_util_counter # NULL
    THEN [ret |-> IF pc.utilValid THEN Trunc(pc.utilValue) ELSE 0,
          tr |-> <<Ev("PdhCollectQueryData", g.query_handle, TRUE),
                   Ev("PdhGetFormattedCounterValue:util", g.gpu_util_counter, pc.utilValid)>>]
    ELSE [ret |-> 0, tr |-> <<Ev("PdhCollectQueryData", g.query_handle, TRUE)>>]

\* get_gpu_utilization_perf_counter (the same code in amd/ and intel/).
\* pc.collectOk is PdhCollectQueryData's result, pc.utilValid whether
\* PdhGetFormattedCounterValue returns valid data, pc.utilValue the double.
get_gpu_utilization_perf_counter(g, pc) ==
    IF ~g.perf_counters_initialized \/ g.query_handle = NULL
    THEN [ret |-> -1, tr |-> <<>>]
    ELSE IF ~pc.collectOk
    THEN [ret |-> -1, tr |-> <<Ev("PdhCollectQueryData", g.query_handle, FALSE)>>]
    ELSE IF g.gpu_util_counter # NULL
    THEN [ret |-> IF pc.utilValid THEN Trunc(pc.utilValue) ELSE 0,
          tr |-> <<Ev("PdhCollectQueryData", g.query_handle, TRUE),
                   Ev("PdhGetFormattedCounterValue:util", g.gpu_util_counter, pc.utilValid)>>]
    ELSE [ret |-> 0, tr |-> <<Ev("PdhCollectQueryData", g.query_handle, TRUE)>>]

\* get_gpu_memory_perf_counter (the same code in amd/ and intel/)
get_gpu_memory_perf_counter(g, pc) ==
    IF ~g.perf_counters_initialized \/ g.query_handle = NULL
    THEN [ret |-> 0, tr |-> <<>>]
    ELSE IF g.gpu_memory_counter # NULL
    THEN [ret |-> IF pc.memValid THEN ToU64(pc.memValue) ELSE 0,
          tr |-> <<Ev("PdhGetFormattedCounterValue:memory", g.gpu_memory_counter, pc.memValid)>>]
    ELSE [ret |-> 0, tr |-> <<>>]

\* get_gpu_utilization of amd/gpu_usage.c; r is what agsGetGPUMemoryUsage does
amd_get_gpu_utilization(g, o, device_index, r, pc, ub) ==
    LET call == g.ags_initialized /\ g.agsGetGPUMemoryUsage # NULL
        fault == call /\ Faults(g.agsGetGPUMemoryUsage, o, ub)
        tr1 == IF call THEN <<Ev("agsGetGPUMemoryUsage", device_index, r.ok /\ ~fault)>> ELSE <<>>
        pf == get_gpu_utilization_perf_counter(g, pc)
    IN  IF fault THEN [ret |-> 0, tr |-> tr1, fault |-> TRUE]
        ELSE IF call /\ r.ok
        THEN [ret |-> Trunc(r.usage.gpuUsagePercent), tr |-> tr1, fault |-> FALSE]
        ELSE [ret |-> pf.ret, tr |-> tr1 \o pf.tr, fault |-> FALSE]

\* get_gpu_memory_usage of amd/gpu_usage.c
amd_get_gpu_memory_usage(g, o, device_index, r, pc, ub) ==
    LET call == g.ags_initialized /\ g.agsGetGPUMemoryUsage # NULL
        fault == call /\ Faults(g.agsGetGPUMemoryUsage, o, ub)
        tr1 == IF call THEN <<Ev("agsGetGPUMemoryUsage", device_index, r.ok /\ ~fault)>> ELSE <<>>
        pf == get_gpu_memory_perf_counter(g, pc)
    IN  IF fault THEN [ret |-> 0, tr |-> tr1, fault |-> TRUE]
        ELSE IF call /\ r.ok
        THEN [ret |-> ToU64(r.usage.memoryUsedInBytes), tr |-> tr1, fault |-> FALSE]
        ELSE [ret |-> pf.ret, tr |-> tr1 \o pf.tr, fault |-> FALSE]

\* the registry lookup of the adapter's DriverDesc: the default name stays
\* unless the key opens and the value is read
RegistryName(default, reg) == IF reg = "value" THEN "DriverDesc" ELSE default
RegistryCalls(reg) ==
    IF reg = "nokey" THEN <<Ev("RegOpenKeyExA", 0, FALSE)>>
    ELSE <<Ev("RegOpenKeyExA", 0, TRUE), Ev("RegQueryValueExA", 0, reg = "value"),
           Ev("RegCloseKey", 0, TRUE)>>

\* one iteration of the loop of gpu_get_info_json of amd/gpu_usage.c: the text
\* appended for device i.  r.mem, r.util, r.stats are the outcomes of the three
\* agsGetGPUMemoryUsage calls the iteration can make.
amd_json_device(g, o, i, r, pc, reg, ub) ==
    LET um == amd_get_gpu_memory_usage(g, o, i, r.mem, pc, ub)
        uu == amd_get_gpu_utilization(g, o, i, r.util, pc, ub)
        used_mem == um.ret
        gpu_util == uu.ret
        detailed == g.ags_initialized /\ i < g.gpu_info.numDevices
        callStats == detailed /\ g.agsGetGPUMemoryUsage # NULL
        fault3 == callStats /\ Faults(g.agsGetGPUMemoryUsage, o, ub)
        statsOk == callStats /\ r.stats.ok
        gpu_name == IF detailed THEN g.gpu_info.devices[i + 1].adapterString
                    ELSE RegistryName("AMD Graphics Card", reg)
        total_mem == IF detailed THEN ToU64(g.gpu_info.devices[i + 1].localMemoryInBytes)
                     ELSE AMD_FALLBACK_TOTAL
        temperature == IF statsOk THEN r.stats.usage.temperatureInC ELSE 0
        power_usage == IF statsOk THEN r.stats.usage.powerUsageInWatts ELSE 0
        free_mem == IF total_mem > used_mem THEN total_mem - used_mem ELSE 0
        rec == [kind |-> "record",
                index |-> i,
                name |-> gpu_name,
                gpu_utilization |-> IF gpu_util >= 0 THEN gpu_util ELSE 0,
                memory_utilization |->
                    IF total_mem > 0 THEN ToInt(ToU64(used_mem * 100) \div total_mem) ELSE 0,
                memory_total |-> total_mem,
                memory_used |-> used_mem,
                memory_free |-> free_mem,
                temperature |-> Frac(temperature, 2),
                power_usage |-> Frac(power_usage, 2)]
        tr3 == IF callStats THEN <<Ev("agsGetGPUMemoryUsage", i, r.stats.ok /\ ~fault3)>>
               ELSE IF ~detailed THEN RegistryCalls(reg)
               ELSE <<>>
    IN  [text |-> (IF i > 0 THEN <<JsonComma>> ELSE <<>>) \o <<rec>>,
         tr |-> um.tr \o uu.tr \o tr3,
         fault |-> um.fault \/ uu.fault \/ fault3]

\* the for loop of gpu_get_info_json of amd/gpu_usage.c from device i on
RECURSIVE amd_json_loop(_, _, _, _, _, _, _, _)
amd_json_loop(g, o, i, device_count, rs, pc, reg, ub) ==
    IF i >= device_count THEN [text |-> <<>>, tr |-> <<>>, fault |-> FALSE]
    ELSE
      LET d == amd_json_device(g, o, i, rs[i], pc, reg, ub)
          rest == amd_json_loop(g, o, i + 1, device_count, rs, pc, reg, ub)
      IN  IF d.fault THEN [text |-> <<>>, tr |-> d.tr, fault |-> TRUE]
          ELSE [text |-> d.text \o rest.text, tr |-> d.tr \o rest.tr, fault |-> rest.fault]

\* gpu_get_info_json of amd/gpu_usage.c
amd_gpu_get_info_json(g, o, rs, pc, reg, ub) ==
    LET device_count == amd_gpu_get_count(g)
        loop == amd_json_loop(g, o, 0, device_count, rs, pc, reg, ub)
    IN  IF device_count <= 0
        THEN [g |-> g, os |-> o, doc |-> NoDoc, tr |-> <<>>, fault |-> FALSE]
        ELSE [g |-> g, os |-> o, doc |-> <<JsonOpen>> \o loop.text \o <<JsonClose>>,
              tr |-> loop.tr, fault |-> loop.fault]

\* gpu_get_usage of amd/gpu_usage.c that gives up on the vendor library when
\* its call fails: it clears ags_initialized, so later calls use the counters
amd_gpu_get_usage_demoting(g, o, r, pc, ub) ==
    LET u == amd_get_gpu_utilization(g, o, 0, r, pc, ub)
        failed == g.ags_initialized /\ g.agsGetGPUMemoryUsage # NULL /\ ~r.ok
    IN  Res(IF failed THEN [g EXCEPT !.ags_initialized = FALSE] ELSE g, o, u.ret, u.tr, u.fault)

\* gpu_get_usage of amd/gpu_usage.c
amd_gpu_get_usage(g, o, r, pc, ub) ==
    LET u == amd_get_gpu_utilization(g, o, 0, r, pc, ub)
    IN  Res(g, o, u.ret, u.tr, u.fault)


\* ------------------------------------------------------------- AMD: inputs
\* what agsInitialize may do
AmdVendorInits ==
    {[ok |-> FALSE, info |-> AmdGpuInfo(0)]}
    \cup {[ok |-> TRUE, info |-> AmdGpuInfo(n)] : n \in 0..MaxDevices}
AmdVendorInitFails == {[ok |-> FALSE, info |-> AmdGpuInfo(0)]}

\* what the counter subsystem may do during init_performance_counters: the
\* utilization counter registers at the first path, at the last, or nowhere
PerfInitInputs ==
    {[openOk |-> FALSE, u |-> 0, m |-> 0]}
    \cup {[openOk |-> TRUE, u |-> u, m |-> m] :
            u \in {0, 1, UTIL_COUNTER_PATHS}, m \in {0, 1}}
PerfInitUnused == {[openOk |-> FALSE, u |-> 0, m |-> 0]}

\* the inputs of one gpu_init of amd/gpu_usage.c; the parts a run never
\* consults are fixed
AmdInitInputs ==
    {[k |-> 0, h |-> NULL, exports |-> AmdSymbols, vinit |-> v, perf |-> p] :
        v \in AmdVendorInitFails, p \in PerfInitInputs}
    \cup UNION {
        IF {"agsInitialize", "agsDeInitialize"} \subseteq e
        THEN {[k |-> k, h |-> h, exports |-> e, vinit |-> v, perf |-> p] :
                 v \in AmdVendorInits \ AmdVendorInitFails, p \in PerfInitUnused}
             \cup {[k |-> k, h |-> h, exports |-> e, vinit |-> v, perf |-> p] :
                 v \in AmdVendorInitFails, p \in PerfInitInputs}
        ELSE {[k |-> k, h |-> h, exports |-> e, vinit |-> v, perf |-> p] :
                 v \in AmdVendorInitFails, p \in PerfInitInputs}
        : k \in FirstPaths(AMD_PATHS), h \in 1..MaxModules, e \in ExportSets(AmdSymbols)}

\* what the counter subsystem may do during one query: the double 42.5 or
\* 150.5 for utilization, 2 or 9 for memory
PerfInputs ==
    {[collectOk |-> c, utilValid |-> uv, utilValue |-> u, memValid |-> mv, memValue |-> m] :
        c \in BOOLEAN, uv \in BOOLEAN, u \in {85, 301}, mv \in BOOLEAN, m \in {2, 9}}
PerfUnused ==
    {[collectOk |-> FALSE, utilValid |-> FALSE, utilValue |-> 85, memValid |-> FALSE, memValue |-> 2]}
\* the counter inputs a query can consult in state g
PerfInputsFor(g) ==
    IF g.perf_counters_initialized /\ g.query_handle # NULL
    THEN {pc \in PerfInputs :
            /\ (~pc.collectOk \/ g.gpu_util_counter = NULL) => (~pc.utilValid)
            /\ (~pc.utilValid) => pc.utilValue = 85
            /\ g.gpu_memory_counter = NULL => ~pc.memValid
            /\ (~pc.memValid) => pc.memValue = 2}
    ELSE PerfUnused

RegistryInputs == {"nokey", "value"}

AmdFail == [ok |-> FALSE, usage |-> AmdNoSample]
AmdSteady ==
    [ok |-> TRUE,
     usage |-> [gpuUsagePercent |-> 85, memoryUsedInBytes |-> 2, temperatureInC |-> 121,
                powerUsageInWatts |-> 301]]
\* the outcomes of the agsGetGPUMemoryUsage calls of one snapshot of n devices:
\* one device's three calls are arbitrary, every other device's calls succeed
AmdSnapshotInputs(g, n) ==
    IF ~(g.ags_initialized /\ g.agsGetGPUMemoryUsage # NULL) \/ n <= 0
    THEN {[i \in 0..(n - 1) |-> [mem |-> AmdFail, util |-> AmdFail, stats |-> AmdFail]]}
    ELSE {[i \in 0..(n - 1) |->
              IF i = d THEN [mem |-> a, util |-> b, stats |-> c]
              ELSE [mem |-> AmdSteady, util |-> AmdSteady, stats |-> AmdSteady]] :
            d \in 0..(n - 1), a \in AmdOutcomes, b \in AmdOutcomes, c \in AmdOutcomes}

\* ------------------------------------------------------------ AMD: actions
\* the process runs backend b, has not faulted, and may make another call
Running(b) == backend = b /\ ~crashed /\ nCalls < MaxCalls

\* the latest public call
Call(op, ret, doc, tr) == [op |-> op, ret |-> ret, doc |-> doc, tr |-> tr]

AmdGpuInit ==
    /\ Running("amd") /\ nInits < MaxInits
    /\ \E in \in AmdInitInputs :
         \E r \in {amd_gpu_init(amd, os, in)} :
             /\ amd' = r.g
             /\ os' = r.os
             /\ last' = Call("gpu_init", r.ret, NoDoc, r.tr)
             /\ session' = IF r.ret = 0 THEN "ok" ELSE "failed"
             /\ paired' = (paired /\ session = "none")
             /\ heldAtInit' = Held(os)
    /\ nInits' = nInits + 1
    /\ nCalls' = nCalls + 1
    /\ UNCHANGED <<backend, intel, nvidia, crashed, json_buffer>>

AmdGpuShutdown ==
    /\ Running("amd")
    /\ \E ub \in UbChoices(amd.agsDeInitialize, os) :
         \E r \in {amd_gpu_shutdown(amd, os, ub)} :
             /\ amd' = IF r.fault THEN amd ELSE r.g
             /\ os' = IF r.fault THEN os ELSE r.os
             /\ crashed' = r.fault
             /\ last' = Call("gpu_shutdown", 0, NoDoc, r.tr)
             /\ session' = IF r.fault THEN session ELSE "none"
    /\ nCalls' = nCalls + 1
    /\ UNCHANGED <<backend, intel, nvidia, nInits, paired, heldAtInit, json_buffer>>

AmdGpuGetCount ==
    /\ Running("amd")
    /\ last' = Call("gpu_get_count", amd_gpu_get_count(amd), NoDoc, <<>>)
    /\ nCalls' = nCalls + 1
    /\ UNCHANGED <<backend, amd, intel, nvidia, os, crashed, session, nInits, paired, heldAtInit, json_buffer>>

AmdGpuGetInfoJson ==
    /\ Running("amd")
    /\ \E rs \in AmdSnapshotInputs(amd, amd_gpu_get_count(amd)),
          pc \in PerfInputsFor(amd),
          reg \in (IF amd.ags_initialized THEN {"nokey"} ELSE RegistryInputs),
          ub \in UbChoices(amd.agsGetGPUMemoryUsage, os) :
         \E r \in {amd_gpu_get_info_json(amd, os, rs, pc, reg, ub)} :
             /\ amd' = IF r.fault THEN amd ELSE r.g
             /\ os' = IF r.fault THEN os ELSE r.os
             /\ crashed' = r.fault
             /\ last' = Call("gpu_get_info_json", 0, IF r.fault THEN NoDoc ELSE r.doc, r.tr)
    /\ nCalls' = nCalls + 1
    /\ UNCHANGED <<backend, intel, nvidia, session, nInits, paired, heldAtInit, json_buffer>>

AmdGpuGetUsage ==
    /\ Running("amd")
    /\ \E o \in (IF amd.ags_initialized /\ amd.agsGetGPUMemoryUsage # NULL
                 THEN AmdOutcomes ELSE {AmdFail}),
          pc \in PerfInputsFor(amd),
          ub \in UbChoices(amd.agsGetGPUMemoryUsage, os) :
         \E r \in {amd_gpu_get_usage(amd, os, o, pc, ub)} :
             /\ amd' = IF r.fault THEN amd ELSE r.g
             /\ os' = IF r.fault THEN os ELSE r.os
             /\ crashed' = r.fault
             /\ last' = Call("gpu_get_usage", r.ret, NoDoc, r.tr)
    /\ nCalls' = nCalls + 1
    /\ UNCHANGED <<backend, intel, nvidia, session, nInits, paired, heldAtInit, json_buffer>>

\* =================================================================== Intel
IntelSymbols ==
    {"igcl_init", "igcl_shutdown", "igcl_get_device_count", "igcl_get_device_info",
     "igcl_get_device_stats"}

\* the static globals of intel/gpu_usage.c as the loader leaves them
IntelInit ==
    [igcl_lib |-> NULL,
     igcl_init |-> NULL,
     igcl_shutdown |-> NULL,
     igcl_get_device_count |-> NULL,
     igcl_get_device_info |-> NULL,
     igcl_get_device_stats |-> NULL,
     igcl_initialized |-> FALSE,
     query_handle |-> NULL,
     gpu_util_counter |-> NULL,
     gpu_memory_counter |-> NULL,
     perf_counters_initialized |-> FALSE]

\* igcl_device_stats_t samples: an ordinary one, and one whose utilization is
\* above INT_MAX and whose memory_used is above the device's total
IntelSamples ==
    {[gpu_utilization |-> 42, memory_used |-> 2, temperature |-> 60, power_usage |-> 15000],
     [gpu_utilization |-> U32Mod - 6, memory_used |-> 9, temperature |-> 95, power_usage |-> 28500]}
IntelNoSample == [gpu_utilization |-> 0, memory_used |-> 0, temperature |-> 0, power_usage |-> 0]
\* one igcl_get_device_stats call
IntelStatsOutcomes ==
    {[ok |-> FALSE, stats |-> IntelNoSample]} \cup {[ok |-> TRUE, stats |-> s] : s \in IntelSamples}
IntelStatsFail == [ok |-> FALSE, stats |-> IntelNoSample]
\* one igcl_get_device_info call
IntelInfoOutcomes ==
    {[ok |-> FALSE, info |-> [device_name |-> "", total_memory |-> 0]],
     [ok |-> TRUE, info |-> [device_name |-> "Intel Arc", total_memory |-> 8]]}
IntelInfoFail == [ok |-> FALSE, info |-> [device_name |-> "", total_memory |-> 0]]
\* ullTotalPhys as GlobalMemoryStatusEx reports it
PhysTotals == {64}

\* load_igcl keeping the library it found when a required symbol is missing
load_igcl_keeps_partial(g, o, k, h, exports) ==
    LET tried == IF k = 0 THEN INTEL_PATHS ELSE k
        loads == [i \in 1..tried |-> Ev("LoadLibraryA", i, i = k)]
    IN  IF k = 0
        THEN Res([g EXCEPT !.igcl_lib = NULL], o, -1, loads, FALSE)
        ELSE
          LET g1 == [g EXCEPT
                       !.igcl_lib = h,
                       !.igcl_init = GetProcAddress(h, "igcl_init", exports),
                       !.igcl_shutdown = GetProcAddress(h, "igcl_shutdown", exports),
                       !.igcl_get_device_count = GetProcAddress(h, "igcl_get_device_count", exports),
                       !.igcl_get_device_info = GetProcAddress(h, "igcl_get_device_info", exports),
                       !.igcl_get_device_stats = GetProcAddress(h, "igcl_get_device_stats", exports)]
              syms == <<Ev("GetProcAddress:igcl_init", h, g1.igcl_init # NULL),
                        Ev("GetProcAddress:igcl_shutdown", h, g1.igcl_shutdown # NULL),
                        Ev("GetProcAddress:igcl_get_device_count", h, g1.igcl_get_device_count # NULL),
                        Ev("GetProcAddress:igcl_get_device_info", h, g1.igcl_get_device_info # NULL),
                        Ev("GetProcAddress:igcl_get_device_stats", h, g1.igcl_get_device_stats # NULL)>>
          IN  IF \/ g1.igcl_init = NULL \/ g1.igcl_shutdown = NULL
                 \/ g1.igcl_get_device_count = NULL \/ g1.igcl_get_device_info = NULL
                 \/ g1.igcl_get_device_stats = NULL
              THEN Res(g1, OsLoad(o, h), -2, loads \o syms, FALSE)
              ELSE Res(g1, OsLoad(o, h), 0, loads \o syms, FALSE)

\* load_igcl
load_igcl(g, o, k, h, exports) ==
    LET tried == IF k = 0 THEN INTEL_PATHS ELSE k
        loads == [i \in 1..tried |-> Ev("LoadLibraryA", i, i = k)]
    IN  IF k = 0
        THEN Res([g EXCEPT !.igcl_lib = NULL], o, -1, loads, FALSE)
        ELSE
          LET g1 == [g EXCEPT
                       !.igcl_lib = h,
                       !.igcl_init = GetProcAddress(h, "igcl_init", exports),
                       !.igcl_shutdown = GetProcAddress(h, "igcl_shutdown", exports),
                       !.igcl_get_device_count = GetProcAddress(h, "igcl_get_device_count", exports),
                       !.igcl_get_device_info = GetProcAddress(h, "igcl_get_device_info", exports),
                       !.igcl_get_device_stats = GetProcAddress(h, "igcl_get_device_stats", exports)]
              syms == <<Ev("GetProcAddress:igcl_init", h, g1.igcl_init # NULL),
                        Ev("GetProcAddress:igcl_shutdown", h, g1.igcl_shutdown # NULL),
                        Ev("GetProcAddress:igcl_get_device_count", h, g1.igcl_get_device_count # NULL),
                        Ev("GetProcAddress:igcl_get_device_info", h, g1.igcl_get_device_info # NULL),
                        Ev("GetProcAddress:igcl_get_device_stats", h, g1.igcl_get_device_stats # NULL)>>
          IN  IF \/ g1.igcl_init = NULL \/ g1.igcl_shutdown = NULL
                 \/ g1.igcl_get_device_count = NULL \/ g1.igcl_get_device_info = NULL
                 \/ g1.igcl_get_device_stats = NULL
              THEN Res([g1 EXCEPT !.igcl_lib = NULL], OsFree(OsLoad(o, h), h), -2,
                       loads \o syms \o <<Ev("FreeLibrary", h, TRUE)>>, FALSE)
              ELSE Res(g1, OsLoad(o, h), 0, loads \o syms, FALSE)

\* unload_igcl
unload_igcl(g, o, ub) ==
    LET deinit == g.igcl_initialized /\ g.igcl_shutdown # NULL
        fault == deinit /\ Faults(g.igcl_shutdown, o, ub)
        g1 == IF deinit THEN [g EXCEPT !.igcl_initialized = FALSE] ELSE g
        o1 == IF deinit THEN OsVendorClose(o) ELSE o
        tr1 == IF deinit THEN <<Ev("igcl_shutdown", 0, ~fault)>> ELSE <<>>
    IN  IF fault THEN Res(g, o, 0, tr1, TRUE)
        ELSE IF g1.igcl_lib # NULL
        THEN Res([g1 EXCEPT !.igcl_lib = NULL], OsFree(o1, g1.igcl_lib), 0,
                 tr1 \o <<Ev("FreeLibrary", g1.igcl_lib, o1.libRefs[g1.igcl_lib] > 0)>>, FALSE)
        ELSE Res(g1, o1, 0, tr1, FALSE)

\* gpu_init of intel/gpu_usage.c without its fallback block: a vendor failure
\* is reported at once
intel_gpu_init_no_fallback(g, o, in) ==
    LET l == load_igcl(g, o, in.k, in.h, in.exports)
        callInit == l.ret = 0 /\ l.g.igcl_init # NULL
        initOk == callInit /\ in.vinit.ok
        tr1 == IF callInit THEN l.tr \o <<Ev("igcl_init", 0, in.vinit.ok)>> ELSE l.tr
    IN  IF initOk
        THEN Res([l.g EXCEPT !.igcl_initialized = TRUE],
                 [OsVendorOpen(l.os) EXCEPT !.devices = in.vinit.devices], 0, tr1, FALSE)
        ELSE Res(l.g, l.os, -1, tr1, FALSE)

\* gpu_init of intel/gpu_usage.c.  in.vinit.ok is igcl_init's result and
\* in.vinit.devices the number of devices the library then sees.
intel_gpu_init(g, o, in) ==
    LET l == load_igcl(g, o, in.k, in.h, in.exports)
        callInit == l.ret = 0 /\ l.g.igcl_init # NULL
        initOk == callInit /\ in.vinit.ok
        tr1 == IF callInit THEN l.tr \o <<Ev("igcl_init", 0, in.vinit.ok)>> ELSE l.tr
    IN  IF initOk
        THEN Res([l.g EXCEPT !.igcl_initialized = TRUE],
                 [OsVendorOpen(l.os) EXCEPT !.devices = in.vinit.devices], 0, tr1, FALSE)
        ELSE
          LET p == init_performance_counters(l.g, l.os, in.perf)
          IN  Res(p.g, p.os, IF p.ret = 0 THEN 0 ELSE -1, tr1 \o p.tr, FALSE)

\* gpu_shutdown of intel/gpu_usage.c
intel_gpu_shutdown(g, o, ub) ==
    LET u == unload_igcl(g, o, ub)
        c == cleanup_performance_counters(u.g, u.os)
    IN  IF u.fault THEN u ELSE Res(c.g, c.os, 0, u.tr \o c.tr, FALSE)

\* gpu_get_count of intel/gpu_usage.c; countOk is igcl_get_device_count's
\* result, the count it stores is the number of devices the library sees
intel_gpu_get_count(g, o, countOk, ub) ==
    LET call == g.igcl_initialized /\ g.igcl_get_device_count # NULL
        fault == call /\ Faults(g.igcl_get_device_count, o, ub)
        tr1 == IF call THEN <<Ev("igcl_get_device_count", 0, countOk /\ ~fault)>> ELSE <<>>
    IN  IF fault THEN Res(g, o, 0, tr1, TRUE)
        ELSE IF call /\ countOk THEN Res(g, o, ToInt(o.devices), tr1, FALSE)
        ELSE Res(g, o, 1, tr1, FALSE)

\* get_gpu_utilization of intel/gpu_usage.c; r is what igcl_get_device_stats does
intel_get_gpu_utilization(g, o, r, pc, ub) ==
    LET call == g.igcl_initialized /\ g.igcl_get_device_stats # NULL
        fault == call /\ Faults(g.igcl_get_device_stats, o, ub)
        tr1 == IF call THEN <<Ev("igcl_get_device_stats", 0, r.ok /\ ~fault)>> ELSE <<>>
        pf == get_gpu_utilization_perf_counter(g, pc)
    IN  IF fault THEN [ret |-> 0, tr |-> tr1, fault |-> TRUE]
        ELSE IF call /\ r.ok
        THEN [ret |-> ToInt(r.stats.gpu_utilization), tr |-> tr1, fault |-> FALSE]
        ELSE [ret |-> pf.ret, tr |-> tr1 \o pf.tr, fault |-> FALSE]

\* get_gpu_memory_usage of intel/gpu_usage.c
intel_get_gpu_memory_usage(g, o, r, pc, ub) ==
    LET call == g.igcl_initialized /\ g.igcl_get_device_stats # NULL
        fault == call /\ Faults(g.igcl_get_device_stats, o, ub)
        tr1 == IF call THEN <<Ev("igcl_get_device_stats", 0, r.ok /\ ~fault)>> ELSE <<>>
        pf == get_gpu_memory_perf_counter(g, pc)
    IN  IF fault THEN [ret |-> 0, tr |-> tr1, fault |-> TRUE]
        ELSE IF call /\ r.ok
        THEN [ret |-> ToU64(r.stats.memory_used), tr |-> tr1, fault |-> FALSE]
        ELSE [ret |-> pf.ret, tr |-> tr1 \o pf.tr, fault |-> FALSE]

\* get_gpu_total_memory of intel/gpu_usage.c; r is what igcl_get_device_info
\* does, phys is ullTotalPhys
intel_get_gpu_total_memory(g, o, r, phys, ub) ==
    LET call == g.igcl_initialized /\ g.igcl_get_device_info # NULL
        fault == call /\ Faults(g.igcl_get_device_info, o, ub)
        tr1 == IF call THEN <<Ev("igcl_get_device_info", 0, r.ok /\ ~fault)>> ELSE <<>>
    IN  IF fault THEN [ret |-> 0, tr |-> tr1, fault |-> TRUE]
        ELSE IF call /\ r.ok
        THEN [ret |-> ToU64(r.info.total_memory), tr |-> tr1, fault |-> FALSE]
        ELSE [ret |-> ToU64(phys) \div 8,
              tr |-> tr1 \o <<Ev("GlobalMemoryStatusEx", 0, TRUE)>>, fault |-> FALSE]

\* gpu_get_info_json of intel/gpu_usage.c.  in.util, in.mem, in.temp are the
\* outcomes of its three igcl_get_device_stats calls, in.total and in.name
\* those of its two igcl_get_device_info calls, in.phys is ullTotalPhys.
intel_gpu_get_info_json(g, o, in, pc, reg, ub) ==
    LET uu == intel_get_gpu_utilization(g, o, in.util, pc, ub)
        um == intel_get_gpu_memory_usage(g, o, in.mem, pc, ub)
        ut == intel_get_gpu_total_memory(g, o, in.total, in.phys, ub)
        gpu_util == uu.ret
        memory_used == um.ret
        total_mem == ut.ret
        free_mem == ToU64(total_mem - memory_used)
        callName == g.igcl_initialized /\ g.igcl_get_device_info # NULL
        faultN == callName /\ Faults(g.igcl_get_device_info, o, ub)
        gpu_name == IF callName
                    THEN (IF in.name.ok THEN in.name.info.device_name
                          ELSE "Intel Integrated Graphics")
                    ELSE RegistryName("Intel Integrated Graphics", reg)
        trN == IF callName THEN <<Ev("igcl_get_device_info", 0, in.name.ok /\ ~faultN)>>
               ELSE RegistryCalls(reg)
        callStats == g.igcl_initialized /\ g.igcl_get_device_stats # NULL
        faultS == callStats /\ Faults(g.igcl_get_device_stats, o, ub)
        statsOk == callStats /\ in.temp.ok
        temperature == IF statsOk THEN ToU32(in.temp.stats.temperature) ELSE 0
        power_mw == IF statsOk THEN ToU32(in.temp.stats.power_usage) ELSE 0
        trS == IF callStats THEN <<Ev("igcl_get_device_stats", 0, in.temp.ok /\ ~faultS)>>
               ELSE <<>>
        rec == [kind |-> "record",
                index |-> 0,
                name |-> gpu_name,
                gpu_utilization |-> IF gpu_util >= 0 THEN gpu_util ELSE 0,
                memory_utilization |->
                    IF total_mem > 0 THEN ToInt(ToU64(memory_used * 100) \div total_mem) ELSE 0,
                memory_total |-> total_mem,
                memory_used |-> memory_used,
                memory_free |-> free_mem,
                temperature |-> Frac(temperature, 1),
                power_usage |-> Frac(power_mw, 1000)]
    IN  [g |-> g, os |-> o, doc |-> <<JsonOpen, rec, JsonClose>>,
         tr |-> uu.tr \o um.tr \o ut.tr \o trN \o trS,
         fault |-> uu.fault \/ um.fault \/ ut.fault \/ faultN \/ faultS]

\* gpu_get_usage of intel/gpu_usage.c
intel_gpu_get_usage(g, o, r, pc, ub) ==
    LET u == intel_get_gpu_utilization(g, o, r, pc, ub)
    IN  Res(g, o, u.ret, u.tr, u.fault)

\* ----------------------------------------------------------- Intel: inputs
\* what igcl_init may do
IntelVendorInits ==
    {[ok |-> FALSE, devices |-> 0]} \cup {[ok |-> TRUE, devices |-> n] : n \in 0..MaxDevices}
IntelVendorInitFails == {[ok |-> FALSE, devices |-> 0]}

IntelInitInputs ==
    {[k |-> 0, h |-> NULL, exports |-> IntelSymbols, vinit |-> v, perf |-> p] :
        v \in IntelVendorInitFails, p \in PerfInitInputs}
    \cup UNION {
        IF e = IntelSymbols
        THEN {[k |-> k, h |-> h, exports |-> e, vinit |-> v, perf |-> p] :
                 v \in IntelVendorInits \ IntelVendorInitFails, p \in PerfInitUnused}
             \cup {[k |-> k, h |-> h, exports |-> e, vinit |-> v, perf |-> p] :
                 v \in IntelVendorInitFails, p \in PerfInitInputs}
        ELSE {[k |-> k, h |-> h, exports |-> e, vinit |-> v, perf |-> p] :
                 v \in IntelVendorInitFails, p \in PerfInitInputs}
        : k \in FirstPaths(INTEL_PATHS), h \in 1..MaxModules, e \in ExportSets(IntelSymbols)}

\* a stats call that fails, or succeeds with sample s
IntelStats(ok, s) == IF ok THEN [ok |-> TRUE, stats |-> s] ELSE IntelStatsFail

\* the vendor outcomes one snapshot can consult in state g: each of the three
\* stats calls and of the two info calls fails or succeeds on its own; the
\* stats calls that succeed within one snapshot read the same sample
IntelSnapshotInputs(g) ==
    IF g.igcl_initialized /\ g.igcl_get_device_stats # NULL /\ g.igcl_get_device_info # NULL
    THEN {[util |-> IntelStats(a, s), mem |-> IntelStats(b, s), temp |-> IntelStats(c, s),
           total |-> t, name |-> n, phys |-> 64] :
            s \in IntelSamples, a \in BOOLEAN, b \in BOOLEAN, c \in BOOLEAN,
            t \in IntelInfoOutcomes, n \in IntelInfoOutcomes}
    ELSE {[util |-> IntelStatsFail, mem |-> IntelStatsFail, temp |-> IntelStatsFail,
           total |-> IntelInfoFail, name |-> IntelInfoFail, phys |-> p] : p \in PhysTotals}

\* ---------------------------------------------------------- Intel: actions
IntelGpuInit ==
    /\ Running("intel") /\ nInits < MaxInits
    /\ \E in \in IntelInitInputs :
         \E r \in {intel_gpu_init(intel, os, in)} :
             /\ intel' = r.g
             /\ os' = r.os
             /\ last' = Call("gpu_init", r.ret, NoDoc, r.tr)
             /\ session' = IF r.ret = 0 THEN "ok" ELSE "failed"
             /\ paired' = (paired /\ session = "none")
             /\ heldAtInit' = Held(os)
    /\ nInits' = nInits + 1
    /\ nCalls' = nCalls + 1
    /\ UNCHANGED <<backend, amd, nvidia, crashed, json_buffer>>

IntelGpuShutdown ==
    /\ Running("intel")
    /\ \E ub \in UbChoices(intel.igcl_shutdown, os) :
         \E r \in {intel_gpu_shutdown(intel, os, ub)} :
             /\ intel' = IF r.fault THEN intel ELSE r.g
             /\ os' = IF r.fault THEN os ELSE r.os
             /\ crashed' = r.fault
             /\ last' = Call("gpu_shutdown", 0, NoDoc, r.tr)
             /\ session' = IF r.fault THEN session ELSE "none"
    /\ nCalls' = nCalls + 1
    /\ UNCHANGED <<backend, amd, nvidia, nInits, paired, heldAtInit, json_buffer>>

IntelGpuGetCount ==
    /\ Running("intel")
    /\ \E countOk \in (IF intel.igcl_initialized /\ intel.igcl_get_device_count # NULL
                       THEN BOOLEAN ELSE {FALSE}),
          ub \in UbChoices(intel.igcl_get_device_count, os) :
         \E r \in {intel_gpu_get_count(intel, os, countOk, ub)} :
             /\ intel' = IF r.fault THEN intel ELSE r.g
             /\ os' = IF r.fault THEN os ELSE r.os
             /\ crashed' = r.fault
             /\ last' = Call("gpu_get_count", r.ret, NoDoc, r.tr)
    /\ nCalls' = nCalls + 1
    /\ UNCHANGED <<backend, amd, nvidia, session, nInits, paired, heldAtInit, json_buffer>>

IntelGpuGetInfoJson ==
    /\ Running("intel")
    /\ \E in \in IntelSnapshotInputs(intel),
          pc \in PerfInputsFor(intel),
          reg \in (IF intel.igcl_initialized /\ intel.igcl_get_device_info # NULL
                   THEN {"nokey"} ELSE RegistryInputs),
          ub \in UbChoices(intel.igcl_get_device_stats, os) :
         \E r \in {intel_gpu_get_info_json(intel, os, in, pc, reg, ub)} :
             /\ intel' = IF r.fault THEN intel ELSE r.g
             /\ os' = IF r.fault THEN os ELSE r.os
             /\ crashed' = r.fault
             /\ last' = Call("gpu_get_info_json", 0, IF r.fault THEN NoDoc ELSE r.doc, r.tr)
    /\ nCalls' = nCalls + 1
    /\ UNCHANGED <<backend, amd, nvidia, session, nInits, paired, heldAtInit, json_buffer>>

IntelGpuGetUsage ==
    /\ Running("intel")
    /\ \E o \in (IF intel.igcl_initialized /\ intel.igcl_get_device_stats # NULL
                 THEN IntelStatsOutcomes ELSE {IntelStatsFail}),
          pc \in PerfInputsFor(intel),
          ub \in UbChoices(intel.igcl_get_device_stats, os) :
         \E r \in {intel_gpu_get_usage(intel, os, o, pc, ub)} :
             /\ intel' = IF r.fault THEN intel ELSE r.g
             /\ os' = IF r.fault THEN os ELSE r.os
             /\ crashed' = r.fault
             /\ last' = Call("gpu_get_usage", r.ret, NoDoc, r.tr)
    /\ nCalls' = nCalls + 1
    /\ UNCHANGED <<backend, amd, nvidia, session, nInits, paired, heldAtInit, json_buffer>>

\* ================================================================== NVIDIA
NvidiaSymbols ==
    {"nvmlInit_v2", "nvmlInit", "nvmlShutdown", "nvmlDeviceGetCount_v2", "nvmlDeviceGetCount",
     "nvmlDeviceGetHandleByIndex_v2", "nvmlDeviceGetHandleByIndex", "nvmlDeviceGetName",
     "nvmlDeviceGetUtilizationRates", "nvmlDeviceGetMemoryInfo", "nvmlDeviceGetTemperature",
     "nvmlDeviceGetPowerUsage"}

\* the static globals of nvidia/gpu_usage.c as the loader leaves them
NvidiaInit ==
    [nvml_lib |-> NULL,
     nvmlInit |-> NULL,
     nvmlShutdown |-> NULL,
     nvmlDeviceGetCount |-> NULL,
     nvmlDeviceGetHandleByIndex |-> NULL,
     nvmlDeviceGetName |-> NULL,
     nvmlDeviceGetUtilizationRates |-> NULL,
     nvmlDeviceGetMemoryInfo |-> NULL,
     nvmlDeviceGetTemperature |-> NULL,
     nvmlDeviceGetPowerUsage |-> NULL]

\* GetProcAddress of the _v2 name and, when that is NULL, of the plain name
GetProcAddress2(lib, v2, name, exports) ==
    IF GetProcAddress(lib, v2, exports) # NULL THEN GetProcAddress(lib, v2, exports)
    ELSE GetProcAddress(lib, name, exports)

\* load_nvml
load_nvml(g, o, k, h, exports) ==
    LET tried == IF k = 0 THEN NVIDIA_PATHS ELSE k
        loads == [i \in 1..tried |-> Ev("LoadLibraryA", i, i = k)]
    IN  IF k = 0
        THEN Res([g EXCEPT !.nvml_lib = NULL], o, -1, loads, FALSE)
        ELSE
          LET g1 == [g EXCEPT
                       !.nvml_lib = h,
                       !.nvmlInit = GetProcAddress2(h, "nvmlInit_v2", "nvmlInit", exports),
                       !.nvmlShutdown = GetProcAddress(h, "nvmlShutdown", exports),
                       !.nvmlDeviceGetCount =
                           GetProcAddress2(h, "nvmlDeviceGetCount_v2", "nvmlDeviceGetCount", exports),
                       !.nvmlDeviceGetHandleByIndex =
                           GetProcAddress2(h, "nvmlDeviceGetHandleByIndex_v2",
                                           "nvmlDeviceGetHandleByIndex", exports),
                       !.nvmlDeviceGetName = GetProcAddress(h, "nvmlDeviceGetName", exports),
                       !.nvmlDeviceGetUtilizationRates =
                           GetProcAddress(h, "nvmlDeviceGetUtilizationRates", exports),
                       !.nvmlDeviceGetMemoryInfo =
                           GetProcAddress(h, "nvmlDeviceGetMemoryInfo", exports),
                       !.nvmlDeviceGetTemperature =
                           GetProcAddress(h, "nvmlDeviceGetTemperature", exports),
                       !.nvmlDeviceGetPowerUsage =
                           GetProcAddress(h, "nvmlDeviceGetPowerUsage", exports)]
              syms == <<Ev("GetProcAddress:nvmlInit", h, g1.nvmlInit # NULL),
                        Ev("GetProcAddress:nvmlShutdown", h, g1.nvmlShutdown # NULL),
                        Ev("GetProcAddress:nvmlDeviceGetCount", h, g1.nvmlDeviceGetCount # NULL),
                        Ev("GetProcAddress:nvmlDeviceGetHandleByIndex", h,
                           g1.nvmlDeviceGetHandleByIndex # NULL),
                        Ev("GetProcAddress:nvmlDeviceGetName", h, g1.nvmlDeviceGetName # NULL),
                        Ev("GetProcAddress:nvmlDeviceGetUtilizationRates", h,
                           g1.nvmlDeviceGetUtilizationRates # NULL),
                        Ev("GetProcAddress:nvmlDeviceGetMemoryInfo", h,
                           g1.nvmlDeviceGetMemoryInfo # NULL),
                        Ev("GetProcAddress:nvmlDeviceGetTemperature", h,
                           g1.nvmlDeviceGetTemperature # NULL),
                        Ev("GetProcAddress:nvmlDeviceGetPowerUsage", h,
                           g1.nvmlDeviceGetPowerUsage # NULL)>>
          IN  IF \/ g1.nvmlInit = NULL \/ g1.nvmlShutdown = NULL
                 \/ g1.nvmlDeviceGetCount = NULL \/ g1.nvmlDeviceGetHandleByIndex = NULL
                 \/ g1.nvmlDeviceGetName = NULL \/ g1.nvmlDeviceGetUtilizationRates = NULL
                 \/ g1.nvmlDeviceGetMemoryInfo = NULL
              THEN Res([g1 EXCEPT !.nvml_lib = NULL], OsFree(OsLoad(o, h), h), -2,
                       loads \o syms \o <<Ev("FreeLibrary", h, TRUE)>>, FALSE)
              ELSE Res(g1, OsLoad(o, h), 0, loads \o syms, FALSE)

\* unload_nvml
unload_nvml(g, o) ==
    IF g.nvml_lib # NULL
    THEN Res([g EXCEPT !.nvml_lib = NULL], OsFree(o, g.nvml_lib), 0,
             <<Ev("FreeLibrary", g.nvml_lib, o.libRefs[g.nvml_lib] > 0)>>, FALSE)
    ELSE Res(g, o, 0, <<>>, FALSE)

\* gpu_init of nvidia/gpu_usage.c handing on what load_nvml returned
nvidia_gpu_init_load_status(g, o, in) ==
    LET l == load_nvml(g, o, in.k, in.h, in.exports)
        u == unload_nvml(l.g, l.os)
        tr1 == l.tr \o <<Ev("nvmlInit", 0, in.vinit.ok)>>
    IN  IF l.ret # 0 THEN Res(l.g, l.os, l.ret, l.tr, FALSE)
        ELSE IF ~in.vinit.ok THEN Res(u.g, u.os, -2, tr1 \o u.tr, FALSE)
        ELSE Res(l.g, [OsVendorOpen(l.os) EXCEPT !.devices = in.vinit.devices], 0, tr1, FALSE)

\* gpu_init of nvidia/gpu_usage.c.  in.vinit.ok is nvmlInit's result and
\* in.vinit.devices the number of devices the library then sees.
nvidia_gpu_init(g, o, in) ==
    LET l == load_nvml(g, o, in.k, in.h, in.exports)
        u == unload_nvml(l.g, l.os)
        tr1 == l.tr \o <<Ev("nvmlInit", 0, in.vinit.ok)>>
    IN  IF l.ret # 0 THEN Res(l.g, l.os, -1, l.tr, FALSE)
        ELSE IF ~in.vinit.ok THEN Res(u.g, u.os, -2, tr1 \o u.tr, FALSE)
        ELSE Res(l.g, [OsVendorOpen(l.os) EXCEPT !.devices = in.vinit.devices], 0, tr1, FALSE)

\* gpu_shutdown of nvidia/gpu_usage.c
nvidia_gpu_shutdown(g, o, ub) ==
    LET call == g.nvml_lib # NULL /\ g.nvmlShutdown # NULL
        fault == call /\ Faults(g.nvmlShutdown, o, ub)
        o1 == IF call THEN OsVendorClose(o) ELSE o
        tr1 == IF call THEN <<Ev("nvmlShutdown", 0, ~fault)>> ELSE <<>>
        u == unload_nvml(g, o1)
    IN  IF fault THEN Res(g, o, 0, tr1, TRUE)
        ELSE Res(u.g, u.os, 0, tr1 \o u.tr, FALSE)

\* a run of calls through function pointers, cs[j] = [p, call, arg, ok]: the
\* calls made, up to and with the first one that faults
RunCalls(cs, o, ub) ==
    LET bad == {j \in 1..Len(cs) : Faults(cs[j].p, o, ub)}
        stop == IF bad = {} THEN Len(cs) ELSE CHOOSE j \in bad : \A j2 \in bad : j <= j2
    IN  [tr |-> [j \in 1..stop |-> Ev(cs[j].call, cs[j].arg, cs[j].ok /\ j \notin bad)],
         fault |-> bad # {}]
PtrCall(p, call, arg, ok) == [p |-> p, call |-> call, arg |-> arg, ok |-> ok]

\* gpu_get_count of nvidia/gpu_usage.c; countOk is nvmlDeviceGetCount's result
nvidia_gpu_get_count(g, o, countOk, ub) ==
    LET c == RunCalls(<<PtrCall(g.nvmlDeviceGetCount, "nvmlDeviceGetCount", 0, countOk)>>, o, ub)
    IN  Res(g, o, IF countOk THEN ToInt(ToU32(o.devices)) ELSE -1, c.tr, c.fault)

\* nvmlUtilization_t and nvmlMemory_t samples: ordinary ones, a utilization
\* above 100, and a memory sample in which 1 GiB is reserved (neither used
\* nor free)
NvidiaUtilSamples == {[gpu |-> 42, memory |-> 10], [gpu |-> 150, memory |-> 101]}
NvidiaMemSamples == {[total |-> 8, free |-> 6, used |-> 2], [total |-> 8, free |-> 5, used |-> 2]}
NvidiaUtilOutcomes ==
    {[ok |-> FALSE, utilization |-> [gpu |-> 0, memory |-> 0]]}
    \cup {[ok |-> TRUE, utilization |-> u] : u \in NvidiaUtilSamples}
NvidiaMemOutcomes ==
    {[ok |-> FALSE, memory |-> [total |-> 0, free |-> 0, used |-> 0]]}
    \cup {[ok |-> TRUE, memory |-> m] : m \in NvidiaMemSamples}
NVIDIA_TEMPERATURE == 65      \* what nvmlDeviceGetTemperature stores, degrees
NVIDIA_POWER == 120500        \* what nvmlDeviceGetPowerUsage stores, milliwatts

\* one iteration of the loop of gpu_get_info_json of nvidia/gpu_usage.c.
\* r.handle, r.name, r.temp, r.power are the results of the handle, name,
\* temperature and power calls, r.util and r.mem the outcomes of the
\* utilization and memory calls.
nvidia_json_device(g, o, i, r, ub) ==
    LET hc == RunCalls(<<PtrCall(g.nvmlDeviceGetHandleByIndex, "nvmlDeviceGetHandleByIndex",
                                 i, r.handle)>>, o, ub)
        rc == RunCalls(<<PtrCall(g.nvmlDeviceGetName, "nvmlDeviceGetName", i, r.name),
                         PtrCall(g.nvmlDeviceGetUtilizationRates,
                                 "nvmlDeviceGetUtilizationRates", i, r.util.ok),
                         PtrCall(g.nvmlDeviceGetMemoryInfo, "nvmlDeviceGetMemoryInfo", i, r.mem.ok),
                         PtrCall(g.nvmlDeviceGetTemperature, "nvmlDeviceGetTemperature", i, r.temp),
                         PtrCall(g.nvmlDeviceGetPowerUsage, "nvmlDeviceGetPowerUsage", i, r.power)>>,
                       o, ub)
        name == IF r.name THEN "NVIDIA GeForce" ELSE "Unknown GPU"
        gpu_util == IF r.util.ok THEN ToU32(r.util.utilization.gpu) ELSE 0
        mem_util == IF r.util.ok THEN ToU32(r.util.utilization.memory) ELSE 0
        total_mem == IF r.mem.ok THEN ToU64(r.mem.memory.total) ELSE 0
        used_mem == IF r.mem.ok THEN ToU64(r.mem.memory.used) ELSE 0
        free_mem == IF r.mem.ok THEN ToU64(r.mem.memory.free) ELSE 0
        temperature == IF r.temp THEN NVIDIA_TEMPERATURE ELSE 0
        power == IF r.power THEN NVIDIA_POWER ELSE 0
        rec == [kind |-> "record",
                index |-> i,
                name |-> name,
                gpu_utilization |-> gpu_util,
                memory_utilization |-> mem_util,
                memory_total |-> total_mem,
                memory_used |-> used_mem,
                memory_free |-> free_mem,
                temperature |-> Frac(temperature, 1),
                power_usage |-> Frac(power, 1000)]
    IN  IF hc.fault THEN [text |-> <<>>, tr |-> hc.tr, fault |-> TRUE]
        ELSE IF ~r.handle THEN [text |-> <<>>, tr |-> hc.tr, fault |-> FALSE]
        ELSE IF rc.fault THEN [text |-> <<>>, tr |-> hc.tr \o rc.tr, fault |-> TRUE]
        ELSE [text |-> (IF i > 0 THEN <<JsonComma>> ELSE <<>>) \o <<rec>>,
              tr |-> hc.tr \o rc.tr, fault |-> FALSE]

\* the for loop of gpu_get_info_json of nvidia/gpu_usage.c from device i on
RECURSIVE nvidia_json_loop(_, _, _, _, _, _)
nvidia_json_loop(g, o, i, device_count, rs, ub) ==
    IF i >= device_count THEN [text |-> <<>>, tr |-> <<>>, fault |-> FALSE]
    ELSE
      LET d == nvidia_json_device(g, o, i, rs[i], ub)
          rest == nvidia_json_loop(g, o, i + 1, device_count, rs, ub)
      IN  IF d.fault THEN [text |-> <<>>, tr |-> d.tr, fault |-> TRUE]
          ELSE [text |-> d.text \o rest.text, tr |-> d.tr \o rest.tr, fault |-> rest.fault]

\* gpu_get_info_json of nvidia/gpu_usage.c
nvidia_gpu_get_info_json(g, o, countOk, rs, ub) ==
    LET c == RunCalls(<<PtrCall(g.nvmlDeviceGetCount, "nvmlDeviceGetCount", 0, countOk)>>, o, ub)
        device_count == ToU32(o.devices)
        loop == nvidia_json_loop(g, o, 0, device_count, rs, ub)
    IN  IF c.fault THEN [g |-> g, os |-> o, doc |-> NoDoc, tr |-> c.tr, fault |-> TRUE]
        ELSE IF ~countOk THEN [g |-> g, os |-> o, doc |-> NoDoc, tr |-> c.tr, fault |-> FALSE]
        ELSE [g |-> g, os |-> o, doc |-> <<JsonOpen>> \o loop.text \o <<JsonClose>>,
              tr |-> c.tr \o loop.tr, fault |-> loop.fault]

\* gpu_get_usage of nvidia/gpu_usage.c
nvidia_gpu_get_usage(g, o, handleOk, r, ub) ==
    LET hc == RunCalls(<<PtrCall(g.nvmlDeviceGetHandleByIndex, "nvmlDeviceGetHandleByIndex",
                                 0, handleOk)>>, o, ub)
        uc == RunCalls(<<PtrCall(g.nvmlDeviceGetUtilizationRates,
                                 "nvmlDeviceGetUtilizationRates", 0, r.ok)>>, o, ub)
    IN  IF hc.fault THEN Res(g, o, 0, hc.tr, TRUE)
        ELSE IF ~handleOk THEN Res(g, o, -1, hc.tr, FALSE)
        ELSE IF uc.fault THEN Res(g, o, 0, hc.tr \o uc.tr, TRUE)
        ELSE IF ~r.ok THEN Res(g, o, -1, hc.tr \o uc.tr, FALSE)
        ELSE Res(g, o, ToInt(r.utilization.gpu), hc.tr \o uc.tr, FALSE)

\* ---------------------------------------------------------- NVIDIA: inputs
NvidiaVendorInits ==
    {[ok |-> FALSE, devices |-> 0]} \cup {[ok |-> TRUE, devices |-> n] : n \in 0..MaxDevices}

NvidiaInitInputs ==
    {[k |-> 0, h |-> NULL, exports |-> NvidiaSymbols, vinit |-> [ok |-> FALSE, devices |-> 0]]}
    \cup {[k |-> k, h |-> h, exports |-> e, vinit |-> v] :
            k \in FirstPaths(NVIDIA_PATHS), h \in 1..MaxModules,
            e \in ExportSets(NvidiaSymbols), v \in NvidiaVendorInits}

NvidiaUtilFail == [ok |-> FALSE, utilization |-> [gpu |-> 0, memory |-> 0]]
NvidiaSteady ==
    [handle |-> TRUE, name |-> TRUE,
     util |-> [ok |-> TRUE, utilization |-> [gpu |-> 42, memory |-> 10]],
     mem |-> [ok |-> TRUE, memory |-> [total |-> 8, free |-> 6, used |-> 2]],
     temp |-> TRUE, power |-> TRUE]
\* what the calls for one device may do: the handle lookup fails, or it
\* succeeds, the utilization and memory calls have any outcome, and at most
\* one of the name, temperature and power calls fails
NvidiaDeviceOutcomes ==
    {[NvidiaSteady EXCEPT !.handle = FALSE]}
    \cup {[NvidiaSteady EXCEPT !.util = u, !.mem = m, !.name = f # "name", !.temp = f # "temp",
                               !.power = f # "power"] :
            u \in NvidiaUtilOutcomes, m \in NvidiaMemOutcomes,
            f \in {"none", "name", "temp", "power"}}
\* the outcomes of one snapshot of n devices: one device's calls are
\* arbitrary, every other device's calls succeed
NvidiaSnapshotInputs(n) ==
    IF n <= 0 THEN {<<>>}
    ELSE {[i \in 0..(n - 1) |-> IF i = d THEN r ELSE NvidiaSteady] :
            d \in 0..(n - 1), r \in NvidiaDeviceOutcomes}

\* --------------------------------------------------------- NVIDIA: actions
NvidiaGpuInit ==
    /\ Running("nvidia") /\ nInits < MaxInits
    /\ \E in \in NvidiaInitInputs :
         \E r \in {nvidia_gpu_init(nvidia, os, in)} :
             /\ nvidia' = r.g
             /\ os' = r.os
             /\ last' = Call("gpu_init", r.ret, NoDoc, r.tr)
             /\ session' = IF r.ret = 0 THEN "ok" ELSE "failed"
             /\ paired' = (paired /\ session = "none")
             /\ heldAtInit' = Held(os)
    /\ nInits' = nInits + 1
    /\ nCalls' = nCalls + 1
    /\ UNCHANGED <<backend, amd, intel, crashed, json_buffer>>

NvidiaGpuShutdown ==
    /\ Running("nvidia")
    /\ \E ub \in UbChoices(nvidia.nvmlShutdown, os) :
         \E r \in {nvidia_gpu_shutdown(nvidia, os, ub)} :
             /\ nvidia' = IF r.fault THEN nvidia ELSE r.g
             /\ os' = IF r.fault THEN os ELSE r.os
             /\ crashed' = r.fault
             /\ last' = Call("gpu_shutdown", 0, NoDoc, r.tr)
             /\ session' = IF r.fault THEN session ELSE "none"
    /\ nCalls' = nCalls + 1
    /\ UNCHANGED <<backend, amd, intel, nInits, paired, heldAtInit, json_buffer>>

NvidiaGpuGetCount ==
    /\ Running("nvidia")
    /\ \E countOk \in BOOLEAN, ub \in UbChoices(nvidia.nvmlDeviceGetCount, os) :
         \E r \in {nvidia_gpu_get_count(nvidia, os, countOk, ub)} :
             /\ nvidia' = IF r.fault THEN nvidia ELSE r.g
             /\ os' = IF r.fault THEN os ELSE r.os
             /\ crashed' = r.fault
             /\ last' = Call("gpu_get_count", IF r.fault THEN 0 ELSE r.ret, NoDoc, r.tr)
    /\ nCalls' = nCalls + 1
    /\ UNCHANGED <<backend, amd, intel, session, nInits, paired, heldAtInit, json_buffer>>

NvidiaGpuGetInfoJson ==
    /\ Running("nvidia")
    /\ \E countOk \in BOOLEAN, ub \in UbChoices(nvidia.nvmlDeviceGetCount, os) :
         \E rs \in (IF countOk /\ ~Faults(nvidia.nvmlDeviceGetCount, os, ub)
                    THEN NvidiaSnapshotInputs(ToU32(os.devices))
                    ELSE {[i \in 0..(ToU32(os.devices) - 1) |-> NvidiaSteady]}) :
           \E r \in {nvidia_gpu_get_info_json(nvidia, os, countOk, rs, ub)} :
               /\ nvidia' = IF r.fault THEN nvidia ELSE r.g
               /\ os' = IF r.fault THEN os ELSE r.os
               /\ crashed' = r.fault
               /\ last' = Call("gpu_get_info_json", 0, IF r.fault THEN NoDoc ELSE r.doc, r.tr)
    /\ nCalls' = nCalls + 1
    /\ UNCHANGED <<backend, amd, intel, session, nInits, paired, heldAtInit, json_buffer>>

NvidiaGpuGetUsage ==
    /\ Running("nvidia")
    /\ \E handleOk \in BOOLEAN, ub \in UbChoices(nvidia.nvmlDeviceGetHandleByIndex, os) :
         \E r \in (IF handleOk /\ ~Faults(nvidia.nvmlDeviceGetHandleByIndex, os, ub)
                   THEN NvidiaUtilOutcomes ELSE {NvidiaUtilFail}) :
           \E u \in {nvidia_gpu_get_usage(nvidia, os, handleOk, r, ub)} :
               /\ nvidia' = IF u.fault THEN nvidia ELSE u.g
               /\ os' = IF u.fault THEN os ELSE u.os
               /\ crashed' = u.fault
               /\ last' = Call("gpu_get_usage", IF u.fault THEN 0 ELSE u.ret, NoDoc, u.tr)
    /\ nCalls' = nCalls + 1
    /\ UNCHANGED <<backend, amd, intel, session, nInits, paired, heldAtInit, json_buffer>>

\* ------------------------------------------------------------ specification
Init ==
    /\ backend \in {"amd", "intel", "nvidia"}
    /\ amd = AmdInit
    /\ intel = IntelInit
    /\ nvidia = NvidiaInit
    /\ os = OsInit
    /\ last = Call("none", 0, NoDoc, <<>>)
    /\ crashed = FALSE
    /\ session = "none"
    /\ paired = TRUE
    /\ heldAtInit = Held(OsInit)
    /\ nInits = 0
    /\ nCalls = 0
    /\ json_buffer = NoBuffer

Next ==
    \/ AmdGpuInit
    \/ AmdGpuShutdown
    \/ AmdGpuGetCount
    \/ AmdGpuGetInfoJson
    \/ AmdGpuGetUsage
    \/ IntelGpuInit
    \/ IntelGpuShutdown
    \/ IntelGpuGetCount
    \/ IntelGpuGetInfoJson
    \/ IntelGpuGetUsage
    \/ NvidiaGpuInit
    \/ NvidiaGpuShutdown
    \/ NvidiaGpuGetCount
    \/ NvidiaGpuGetInfoJson
    \/ NvidiaGpuGetUsage

Spec == Init /\ [][Next]_vars

\* -------------------------------------------------------------- properties
\* what a call's trace shows
Made(tr, c) == \E j \in 1..Len(tr) : tr[j].call = c
Succeeded(tr, c) == \E j \in 1..Len(tr) : tr[j].call = c /\ tr[j].ok
FailedFor(tr, c, i) == \E j \in 1..Len(tr) : tr[j].call = c /\ tr[j].arg = i /\ ~tr[j].ok
FirstOf(tr, c) == CHOOSE j \in 1..Len(tr) : tr[j].call = c /\ \A j2 \in 1..(j - 1) : tr[j2].call # c

\* the session state of the running backend
VendorFlag ==
    CASE backend = "amd" -> amd.ags_initialized
      [] backend = "intel" -> intel.igcl_initialized
      [] OTHER -> FALSE
PerfFlag ==
    CASE backend = "amd" -> amd.perf_counters_initialized
      [] backend = "intel" -> intel.perf_counters_initialized
      [] OTHER -> FALSE
LibHandle ==
    CASE backend = "amd" -> amd.ags_lib
      [] backend = "intel" -> intel.igcl_lib
      [] OTHER -> nvidia.nvml_lib
QueryHandle ==
    CASE backend = "amd" -> amd.query_handle
      [] backend = "intel" -> intel.query_handle
      [] OTHER -> NULL
SessionState == <<LibHandle, VendorFlag, QueryHandle, PerfFlag>>

\* the vendor steps of gpu_init as its trace shows them: a candidate path
\* loaded, every required symbol resolved, the vendor's initialize succeeded
VendorInitCall ==
    CASE backend = "amd" -> "agsInitialize"
      [] backend = "intel" -> "igcl_init"
      [] OTHER -> "nvmlInit"
RequiredSymbols ==
    CASE backend = "amd" -> {"GetProcAddress:agsInitialize", "GetProcAddress:agsDeInitialize"}
      [] backend = "intel" ->
           {"GetProcAddress:igcl_init", "GetProcAddress:igcl_shutdown",
            "GetProcAddress:igcl_get_device_count", "GetProcAddress:igcl_get_device_info",
            "GetProcAddress:igcl_get_device_stats"}
      [] OTHER ->
           {"GetProcAddress:nvmlInit", "GetProcAddress:nvmlShutdown",
            "GetProcAddress:nvmlDeviceGetCount", "GetProcAddress:nvmlDeviceGetHandleByIndex",
            "GetProcAddress:nvmlDeviceGetName", "GetProcAddress:nvmlDeviceGetUtilizationRates",
            "GetProcAddress:nvmlDeviceGetMemoryInfo"}
LibraryLoaded(tr) == Succeeded(tr, "LoadLibraryA")
SymbolsResolved(tr) == \A c \in RequiredSymbols : Succeeded(tr, c)
VendorStepsOk(tr) == LibraryLoaded(tr) /\ SymbolsResolved(tr) /\ Succeeded(tr, VendorInitCall)
FallbackAttempted(tr) == Made(tr, "PdhOpenQueryA")
FallbackOk(tr) == Succeeded(tr, "PdhOpenQueryA") /\ Succeeded(tr, "PdhAddCounterA:util")
IsQuery(op) == op \in {"gpu_get_count", "gpu_get_info_json", "gpu_get_usage"}
InitStep == nInits' = nInits + 1
CallStep == nCalls' = nCalls + 1

\* C1: in the AMD and Intel backends a gpu_init called while neither backend
\* is active tries the vendor library first; it attempts the counter fallback
\* exactly when a vendor step (load, required symbols, vendor initialize)
\* failed, and only after the vendor steps; it returns 0 exactly when one of
\* the two backends became active, otherwise a negative value with none active.
C1_VendorFirstThenFallback ==
    [][(backend \in {"amd", "intel"} /\ ~VendorFlag /\ ~PerfFlag /\ InitStep) =>
         LET tr == last'.tr
         IN  /\ Len(tr) > 0 /\ tr[1].call = "LoadLibraryA"
             /\ FallbackAttempted(tr) <=> ~VendorStepsOk(tr)
             /\ FallbackAttempted(tr) =>
                  \A j \in 1..Len(tr) :
                    tr[j].call \in RequiredSymbols \cup {"LoadLibraryA", VendorInitCall}
                      => j < FirstOf(tr, "PdhOpenQueryA")
             /\ (last'.ret = 0) <=> (VendorFlag' # PerfFlag')
             /\ (last'.ret # 0) => (last'.ret < 0 /\ ~VendorFlag' /\ ~PerfFlag')]_vars
\* a first gpu_init whose vendor library loads but whose initialize fails, and
\* whose counter fallback then becomes the active backend
C1_Witness ==
    /\ backend \in {"amd", "intel"} /\ nCalls = 1 /\ last.op = "gpu_init"
    /\ LibraryLoaded(last.tr) /\ SymbolsResolved(last.tr) /\ ~VendorStepsOk(last.tr)
    /\ last.ret = 0 /\ PerfFlag /\ ~VendorFlag

\* C2 as stated: in all three backends a gpu_init that fails has attempted the
\* counter fallback, and a gpu_init whose vendor steps failed attempted it.
C2_FallbackInEveryBackend ==
    (last.op = "gpu_init" /\ ~VendorStepsOk(last.tr)) =>
        /\ FallbackAttempted(last.tr)
        /\ last.ret # 0 => ~FallbackOk(last.tr)
\* C2 amended: in the AMD and Intel backends a gpu_init whose vendor steps
\* failed attempts the counter fallback and fails only when the fallback failed
\* too; the NVIDIA gpu_init has no fallback: it fails exactly when a vendor
\* step failed, with -1 when the library or a required symbol is missing and -2
\* when nvmlInit fails.
C2_FallbackInAmdAndIntelOnly ==
    last.op = "gpu_init" =>
        IF backend \in {"amd", "intel"}
        THEN /\ ~VendorStepsOk(last.tr) => FallbackAttempted(last.tr)
             /\ (last.ret # 0) <=> (~VendorStepsOk(last.tr) /\ ~FallbackOk(last.tr))
        ELSE /\ ~FallbackAttempted(last.tr)
             /\ (last.ret # 0) <=> ~VendorStepsOk(last.tr)
             /\ (last.ret = -1) <=> ~(LibraryLoaded(last.tr) /\ SymbolsResolved(last.tr))
             /\ (last.ret = -2) <=>
                  (LibraryLoaded(last.tr) /\ SymbolsResolved(last.tr)
                   /\ ~Succeeded(last.tr, "nvmlInit"))
\* an NVIDIA gpu_init whose nvmlInit fails: it reports -2 without any fallback
C2_Witness ==
    /\ backend = "nvidia" /\ last.op = "gpu_init" /\ last.ret = -2
    /\ Made(last.tr, "nvmlInit") /\ ~FallbackAttempted(last.tr)

\* C3 as stated: in the AMD and Intel backends the vendor-initialized flag and
\* perf_counters_initialized are never both TRUE.
C3_AtMostOneBackendActive ==
    backend \in {"amd", "intel"} => ~(VendorFlag /\ PerfFlag)

\* C4: a query (gpu_get_count, gpu_get_info_json, gpu_get_usage) that returns
\* leaves the library handle, the vendor-initialized flag, the counter query
\* handle and perf_counters_initialized as they were, whatever its vendor
\* calls did.
C4_QueriesKeepSession ==
    [][(CallStep /\ IsQuery(last'.op) /\ ~crashed') => SessionState' = SessionState]_vars
\* a query of an active vendor session in which a vendor call failed
C4_Witness ==
    /\ IsQuery(last.op) /\ ~crashed /\ VendorFlag /\ session = "ok"
    /\ \E j \in 1..Len(last.tr) :
         /\ last.tr[j].call \in {"agsGetGPUMemoryUsage", "igcl_get_device_stats"}
         /\ ~last.tr[j].ok

\* the records of a document that carry index i
RecordsOf(doc, i) == SelectSeq(Records(doc), LAMBDA r : r.index = i)
\* the devices the vendor session sees
DeviceCount == IF backend = "amd" THEN amd.gpu_info.numDevices ELSE ToU32(os.devices)

\* C5 as stated: in a session whose gpu_init succeeded, when gpu_get_count has
\* reported N >= 0 the next gpu_get_info_json returns a document (not NULL)
\* with exactly N records.
C5_DocumentHasCountRecords ==
    [][(session = "ok" /\ ~crashed /\ last.op = "gpu_get_count" /\ last.ret >= 0
        /\ CallStep /\ last'.op = "gpu_get_info_json" /\ ~crashed') =>
         (last'.doc # NoDoc /\ Len(Records(last'.doc)) = last.ret)]_vars

\* the per-device vendor calls, and the k-th agsGetGPUMemoryUsage call made
\* for device i (1: memory, 2: utilization, 3: temperature and power)
DeviceCalls ==
    {"agsGetGPUMemoryUsage", "nvmlDeviceGetHandleByIndex", "nvmlDeviceGetName",
     "nvmlDeviceGetUtilizationRates", "nvmlDeviceGetMemoryInfo", "nvmlDeviceGetTemperature",
     "nvmlDeviceGetPowerUsage"}
DeviceFailed(tr, i) == \E c \in DeviceCalls : FailedFor(tr, c, i)
AgsCallFailed(tr, i, k) ==
    LET made == SelectSeq(tr, LAMBDA e : e.call = "agsGetGPUMemoryUsage" /\ e.arg = i)
    IN  k <= Len(made) /\ ~made[k].ok
\* record r of device i has 0 in the fields whose vendor call failed
ZeroedWhereFailed(r, tr, i) ==
    IF backend = "amd"
    THEN /\ (AgsCallFailed(tr, i, 1) /\ ~PerfFlag) => r.memory_used = 0
         /\ (AgsCallFailed(tr, i, 2) /\ ~PerfFlag) => r.gpu_utilization = 0
         /\ AgsCallFailed(tr, i, 3) => (r.temperature = Frac(0, 2) /\ r.power_usage = Frac(0, 2))
    ELSE /\ FailedFor(tr, "nvmlDeviceGetUtilizationRates", i) =>
              (r.gpu_utilization = 0 /\ r.memory_utilization = 0)
         /\ FailedFor(tr, "nvmlDeviceGetMemoryInfo", i) =>
              (r.memory_total = 0 /\ r.memory_used = 0 /\ r.memory_free = 0)
         /\ FailedFor(tr, "nvmlDeviceGetTemperature", i) => r.temperature = Frac(0, 1)
         /\ FailedFor(tr, "nvmlDeviceGetPowerUsage", i) => r.power_usage = Frac(0, 1000)
\* the records device i can have when every one of its vendor calls succeeds
PopulatedRecords(i) ==
    IF backend = "amd"
    THEN {LET d == amd_json_device(amd, os, i, [mem |-> a, util |-> b, stats |-> c],
                                   CHOOSE pc \in PerfUnused : TRUE, "nokey", "run").text
          IN  d[Len(d)] :
            a \in AmdOutcomes \ {AmdFail}, b \in AmdOutcomes \ {AmdFail},
            c \in AmdOutcomes \ {AmdFail}}
    ELSE {LET d == nvidia_json_device(nvidia, os, i,
                                      [NvidiaSteady EXCEPT !.util = u, !.mem = m], "run").text
          IN  d[Len(d)] :
            u \in NvidiaUtilOutcomes \ {NvidiaUtilFail},
            m \in {x \in NvidiaMemOutcomes : x.ok}}

\* C6 as stated: in a vendor session of the AMD or NVIDIA backend every device
\* has its record in the document; a device whose vendor call failed has 0 in
\* the fields that call supplies, and every device whose calls all succeeded
\* has its fully populated record.
C6_BadDeviceKeepsItsRecord ==
    (/\ backend \in {"amd", "nvidia"} /\ session = "ok" /\ ~crashed
     /\ (backend = "amd" => VendorFlag)
     /\ last.op = "gpu_get_info_json" /\ last.doc # NoDoc) =>
        \A i \in 0..(DeviceCount - 1) :
            /\ Len(RecordsOf(last.doc, i)) = 1
            /\ IF DeviceFailed(last.tr, i)
               THEN ZeroedWhereFailed(RecordsOf(last.doc, i)[1], last.tr, i)
               ELSE RecordsOf(last.doc, i)[1] \in PopulatedRecords(i)

\* the records of the document the latest call returned (none for any other call)
Emitted ==
    IF last.op = "gpu_get_info_json" /\ ~crashed /\ last.doc # NoDoc
    THEN {Records(last.doc)[j] : j \in 1..Len(Records(last.doc))}
    ELSE {}

\* C7 as stated: every emitted record has memory_free = max(memory_total -
\* memory_used, 0).
C7_MemoryFreeIsTotalMinusUsed ==
    \A r \in Emitted : r.memory_free = Max(r.memory_total - r.memory_used, 0)

\* C8 as stated: every emitted record has memory_utilization = 0 when its
\* memory_total is 0, and floor(memory_used * 100 / memory_total) otherwise.
C8_MemoryUtilizationFromRecord ==
    \A r \in Emitted :
        r.memory_utilization =
            IF r.memory_total = 0 THEN 0 ELSE (r.memory_used * 100) \div r.memory_total

\* C9 as stated: gpu_get_usage returns -1 or a value in 0..100, and the
\* gpu_utilization and memory_utilization of every emitted record are in 0..100.
C9_PercentagesInRange ==
    /\ (last.op = "gpu_get_usage" /\ ~crashed) => (last.ret = -1 \/ last.ret \in 0..100)
    /\ \A r \in Emitted : r.gpu_utilization \in 0..100 /\ r.memory_utilization \in 0..100

\* C10 as stated: in the AMD and Intel backends, while the latest gpu_init has
\* returned a negative value, gpu_get_count returns -1 and gpu_get_info_json
\* returns NULL.
C10_FailedInitGivesSentinels ==
    (backend \in {"amd", "intel"} /\ session = "failed" /\ ~crashed) =>
        /\ last.op = "gpu_get_count" => last.ret = -1
        /\ last.op = "gpu_get_info_json" => last.doc = NoDoc

\* C11: in the AMD and Intel backends a gpu_get_usage made while neither the
\* vendor backend nor the counter backend is active (no gpu_init yet, the
\* gpu_init failed, gpu_shutdown has run) returns -1.
C11_UsageWithoutBackendIsMinusOne ==
    (backend \in {"amd", "intel"} /\ last.op = "gpu_get_usage" /\ ~crashed
     /\ ~VendorFlag /\ ~PerfFlag) => last.ret = -1
\* gpu_get_usage after the gpu_shutdown that closed a session
C11_Witness ==
    /\ backend \in {"amd", "intel"} /\ last.op = "gpu_get_usage" /\ ~crashed
    /\ ~VendorFlag /\ ~PerfFlag /\ session = "none" /\ nInits = 1
    /\ last.ret = -1

\* C12 as stated: in the NVIDIA backend, while NVML is not loaded (no gpu_init
\* yet, gpu_init returned -1 or -2, gpu_shutdown has run), gpu_get_count,
\* gpu_get_info_json and gpu_get_usage call through no NVML function pointer
\* and return -1, NULL and -1.
C12_NoNvmlCallWhenNotLoaded ==
    (backend = "nvidia" /\ IsQuery(last.op) /\ nvidia.nvml_lib = NULL) =>
        /\ ~crashed
        /\ last.tr = <<>>
        /\ last.op = "gpu_get_count" => last.ret = -1
        /\ last.op = "gpu_get_info_json" => last.doc = NoDoc
        /\ last.op = "gpu_get_usage" => last.ret = -1

\* the releases a gpu_shutdown makes: library frees, query closes and vendor
\* de-initialize calls
ReleaseCalls == {"FreeLibrary", "PdhCloseQuery", "agsDeInitialize", "igcl_shutdown", "nvmlShutdown"}
Releases(tr) == SelectSeq(tr, LAMBDA e : e.call \in ReleaseCalls)

\* C13 as stated: in every backend and after any sequence of calls,
\* gpu_shutdown does not fault, every FreeLibrary, PdhCloseQuery and vendor
\* de-initialize it makes is applied to a handle that is held at that moment,
\* and a gpu_shutdown that directly follows a gpu_shutdown makes no release.
C13_ShutdownReleasesOnlyHeld ==
    [][(CallStep /\ last'.op = "gpu_shutdown") =>
         /\ ~crashed'
         /\ \A j \in 1..Len(last'.tr) : last'.tr[j].call \in ReleaseCalls => last'.tr[j].ok
         /\ os'.badRelease = os.badRelease
         /\ last.op = "gpu_shutdown" => Releases(last'.tr) = <<>>]_vars

\* nothing is held from the platform: no library reference, no open query, no
\* vendor session, and no release was applied to something not held
NothingHeld ==
    /\ \A h \in DOMAIN os.libRefs : os.libRefs[h] = 0
    /\ os.queries = {}
    /\ os.vendorLive = 0
    /\ os.badRelease = 0

\* C14: in every backend, when every gpu_init so far (successful or failed)
\* was followed by gpu_shutdown before the next gpu_init, then after
\* gpu_shutdown the library handle and the query handle are NULL, both
\* initialized flags are FALSE, and every library load, query open and
\* successful vendor initialize has been matched by exactly one FreeLibrary,
\* PdhCloseQuery and vendor de-initialize.
C14_ShutdownReleasesEverything ==
    (paired /\ last.op = "gpu_shutdown" /\ ~crashed) =>
        /\ LibHandle = NULL /\ QueryHandle = NULL
        /\ ~VendorFlag /\ ~PerfFlag
        /\ NothingHeld
\* a gpu_shutdown that closed a counter session
C14_Witness ==
    /\ paired /\ last.op = "gpu_shutdown" /\ ~crashed /\ nInits = 1
    /\ Succeeded(last.tr, "PdhCloseQuery")
    /\ NothingHeld

\* the gpu_init before the latest one left something held
HeldBeforeInit == heldAtInit.lib \/ heldAtInit.query \/ heldAtInit.vendor

\* C15 as stated: when the first gpu_init acquired a handle (a library
\* reference, a vendor session or an open query) and gpu_init was called
\* again with no gpu_shutdown in between, then after the one gpu_shutdown that
\* follows at least one handle of the two gpu_init calls is still held.
C15_RepeatedInitLeaks ==
    (nInits = 2 /\ ~paired /\ HeldBeforeInit /\ last.op = "gpu_shutdown" /\ ~crashed) => Holds(os)

\* C15: gpu_init is not safe to repeat.  When the first gpu_init left a
\* library reference held, or left a counter query open and the second
\* gpu_init opened another one, and gpu_init was called again with no
\* gpu_shutdown in between, then after the one gpu_shutdown that follows at
\* least one handle of the two gpu_init calls is still held; when the first
\* left only a counter query open and the second opened none, that
\* gpu_shutdown releases everything.
C15_RepeatedInitLeaksOverwrittenHandle ==
    (nInits = 2 /\ ~paired /\ last.op = "gpu_shutdown" /\ ~crashed) =>
        /\ (heldAtInit.lib \/ (heldAtInit.query /\ os.nextQuery > 2)) => Holds(os)
        /\ (~heldAtInit.lib /\ ~heldAtInit.vendor /\ os.nextQuery <= 2) => ~Holds(os)
\* a library reference of the first gpu_init is still held after gpu_shutdown
C15_Witness ==
    /\ nInits = 2 /\ ~paired /\ last.op = "gpu_shutdown" /\ ~crashed
    /\ heldAtInit.lib /\ Held(os).lib

\* the functions load_nvml requires to resolve
NvmlRequired ==
    {"nvmlInit", "nvmlShutdown", "nvmlDeviceGetCount", "nvmlDeviceGetHandleByIndex",
     "nvmlDeviceGetName", "nvmlDeviceGetUtilizationRates", "nvmlDeviceGetMemoryInfo"}

\* C16 as stated: in a properly sequenced session (a gpu_init that returned 0,
\* then queries) no query calls through a NULL function pointer, and in the
\* NVIDIA backend every function a query calls is one load_nvml requires.
C16_QueriesCallResolvedFunctions ==
    (paired /\ session = "ok" /\ IsQuery(last.op)) =>
        /\ ~crashed
        /\ backend = "nvidia" => \A j \in 1..Len(last.tr) : last.tr[j].call \in NvmlRequired

\* the two failure causes of gpu_init as its trace shows them: no candidate
\* path loaded; a library loaded but a required symbol was missing or the
\* vendor's initialize call was rejected
NoLibrary(tr) == Made(tr, "LoadLibraryA") /\ ~LibraryLoaded(tr)
LoadedButRejected(tr) ==
    LibraryLoaded(tr) /\ (~SymbolsResolved(tr) \/ ~Succeeded(tr, VendorInitCall))

\* C17 as stated: in each backend, the negative value gpu_init returns when
\* no candidate library could be loaded differs from the negative value it
\* returns when a library was loaded but a required symbol was missing or the
\* vendor's initialize call was rejected.
C17_StatusDistinguishesCauses ==
    [][(last.op = "gpu_init" /\ last.ret < 0 /\ InitStep /\ last'.ret < 0
        /\ \/ NoLibrary(last.tr) /\ LoadedButRejected(last'.tr)
           \/ LoadedButRejected(last.tr) /\ NoLibrary(last'.tr))
       => last'.ret # last.ret]_vars

\* C17: a failed gpu_init returns -1 in the AMD and Intel backends whatever
\* the cause; in the NVIDIA backend it returns -1 when no candidate library
\* loaded or a required symbol was missing, and -2 when nvmlInit was rejected.
C17_StatusPerBackend ==
    (last.op = "gpu_init" /\ last.ret < 0) =>
        /\ backend \in {"amd", "intel"} => last.ret = -1
        /\ backend = "nvidia" =>
             /\ last.ret \in {-1, -2}
             /\ last.ret = -1 <=> ~(LibraryLoaded(last.tr) /\ SymbolsResolved(last.tr))
             /\ last.ret = -2 <=>
                  (LibraryLoaded(last.tr) /\ SymbolsResolved(last.tr) /\ ~Succeeded(last.tr, "nvmlInit"))
\* the NVIDIA gpu_init returned -1 for a library that loaded without a
\* required symbol
C17_Witness ==
    /\ backend = "nvidia" /\ last.op = "gpu_init" /\ last.ret = -1
    /\ LibraryLoaded(last.tr) /\ ~SymbolsResolved(last.tr)

\* the counter backend alone is active
FallbackActive == backend \in {"amd", "intel"} /\ PerfFlag /\ ~VendorFlag /\ QueryHandle # NULL
\* the PdhCollectQueryData call of a query failed
CollectFailed(tr) == Made(tr, "PdhCollectQueryData") /\ ~Succeeded(tr, "PdhCollectQueryData")

AllSucceeded(tr) == \A j \in 1..Len(tr) : tr[j].ok
\* a gpu_get_info_json that returned a document
IsSnapshot(c) == c.op = "gpu_get_info_json" /\ c.doc # NoDoc

\* C19 as stated: within one session (after a gpu_init that returned 0, before
\* the next gpu_shutdown), once a snapshot has fetched a device's name and
\* memory_total successfully, the next snapshot reports the same name and
\* memory_total for that index, whatever its own vendor calls return.
C19_NameAndTotalStayFixed ==
    [][(session = "ok" /\ paired /\ ~crashed /\ IsSnapshot(last) /\ AllSucceeded(last.tr)
        /\ CallStep /\ IsSnapshot(last') /\ ~crashed')
       => \A j \in 1..Len(Records(last.doc)), j2 \in 1..Len(Records(last'.doc)) :
            Records(last.doc)[j].index = Records(last'.doc)[j2].index =>
              /\ Records(last'.doc)[j2].name = Records(last.doc)[j].name
              /\ Records(last'.doc)[j2].memory_total = Records(last.doc)[j].memory_total]_vars

\* a session in which no vendor library is loaded and the counter backend,
\* with both its counters registered, is the active one
CountersRegistered ==
    CASE backend = "amd" -> amd.gpu_util_counter # NULL /\ amd.gpu_memory_counter # NULL
      [] backend = "intel" -> intel.gpu_util_counter # NULL /\ intel.gpu_memory_counter # NULL
      [] OTHER -> FALSE
InFallbackSession ==
    /\ paired /\ session = "ok" /\ ~crashed
    /\ FallbackActive /\ LibHandle = NULL /\ CountersRegistered
\* the integer parts of the utilization values, and the used-memory values,
\* the counters report
UtilReadings == {pc.utilValue \div 2 : pc \in PerfInputs}
UsedReadings == {pc.memValue : pc \in PerfInputs}
\* the capacity a counter session reports: AMD's constant 8 GiB, Intel's one
\* eighth of the physical memory (64 GiB)
FallbackTotal == AMD_FALLBACK_TOTAL

C21_NoHandleOnPartialResolution ==
    [][(InitStep /\ LibraryLoaded(last'.tr) /\ ~SymbolsResolved(last'.tr)) =>
         /\ Succeeded(last'.tr, "FreeLibrary")
         /\ LibHandle' = NULL
         /\ os'.libRefs = os.libRefs
         /\ ~Made(last'.tr, VendorInitCall)
         /\ VendorFlag' => VendorFlag
         /\ backend = "nvidia" => last'.ret < 0]_vars
\* a gpu_init whose library loaded without a required symbol
C21_Witness ==
    /\ last.op = "gpu_init" /\ LibraryLoaded(last.tr) /\ ~SymbolsResolved(last.tr)
    /\ Succeeded(last.tr, "FreeLibrary") /\ LibHandle = NULL

\* the number of candidate paths of the running backend's load function
CandidatePaths ==
    CASE backend = "amd" -> AMD_PATHS
      [] backend = "intel" -> INTEL_PATHS
      [] OTHER -> NVIDIA_PATHS
\* the candidate paths a gpu_init passed to LoadLibraryA
PathsTried(tr) == {tr[j].arg : j \in {j2 \in 1..Len(tr) : tr[j2].call = "LoadLibraryA"}}

\* C22 as stated: when a candidate library loads but lacks a required symbol,
\* the load function unloads it and goes on to the next candidate path; it
\* gives up on the vendor library only after every candidate path was tried.
C22_ProberTriesEveryPath ==
    (last.op = "gpu_init" /\ LibraryLoaded(last.tr) /\ ~SymbolsResolved(last.tr)) =>
        PathsTried(last.tr) = 1..CandidatePaths

\* the positions of the events of call c in a trace, and of its successes
Positions(tr, c) == {j \in 1..Len(tr) : tr[j].call = c}
OkPositions(tr, c) == {j \in 1..Len(tr) : tr[j].call = c /\ tr[j].ok}
\* the trace of a gpu_init shows the warm-up of query q: the query was opened,
\* then a utilization counter registered, then PdhCollectQueryData was issued
\* on q, once, after every PdhAddCounterA
WarmedUp(tr, q) ==
    /\ \E a \in OkPositions(tr, "PdhOpenQueryA"), b \in OkPositions(tr, "PdhAddCounterA:util"),
          c \in Positions(tr, "PdhCollectQueryData") :
            /\ tr[a].arg = q /\ tr[c].arg = q
            /\ a < b /\ b < c
            /\ \A d \in Positions(tr, "PdhAddCounterA:util")
                          \cup Positions(tr, "PdhAddCounterA:memory") : d < c
    /\ Cardinality(Positions(tr, "PdhCollectQueryData")) = 1

\* C23: in the AMD and Intel backends perf_counters_initialized becomes TRUE
\* only in a gpu_init that opened the query, then registered a utilization
\* counter, then issued exactly one PdhCollectQueryData on that query; the
\* query handle becomes a new non-NULL value only in such a gpu_init, so that
\* no query finds the counter backend ready with a query that was not warmed
\* up.
C23_ReadyOnlyAfterWarmUp ==
    [][(backend \in {"amd", "intel"} /\ CallStep) =>
         /\ (~PerfFlag /\ PerfFlag') =>
              (last'.op = "gpu_init" /\ WarmedUp(last'.tr, QueryHandle'))
         /\ (QueryHandle' # QueryHandle /\ QueryHandle' # NULL) =>
              (last'.op = "gpu_init" /\ WarmedUp(last'.tr, QueryHandle') /\ PerfFlag')]_vars
\* a gpu_init that made the counter backend ready
C23_Witness ==
    /\ backend \in {"amd", "intel"} /\ last.op = "gpu_init" /\ PerfFlag
    /\ QueryHandle # NULL /\ WarmedUp(last.tr, QueryHandle)

\* the counter handles of the running backend
MemoryCounter == IF backend = "amd" THEN amd.gpu_memory_counter ELSE intel.gpu_memory_counter
\* the utilization paths a gpu_init tried, in the order of the trace
UtilPathsTried(tr) == [j \in 1..Cardinality(Positions(tr, "PdhAddCounterA:util")) |->
                         SelectSeq(tr, LAMBDA e : e.call = "PdhAddCounterA:util")[j]]

\* what a gpu_init that reached init_performance_counters shows: the
\* utilization paths were tried in their order up to the first that
\* registered; with the query open and no utilization path registered, all of
\* them were tried, the query was closed, the handle is NULL and gpu_init
\* failed; gpu_init returned 0 exactly when the query opened and a utilization
\* path registered
FallbackInitOutcome ==
    (backend \in {"amd", "intel"} /\ last.op = "gpu_init" /\ FallbackAttempted(last.tr)) =>
        LET ups == UtilPathsTried(last.tr)
        IN  /\ \A j \in 1..Len(ups) : ups[j].arg = j /\ (ups[j].ok => j = Len(ups))
            /\ (Succeeded(last.tr, "PdhOpenQueryA") /\ ~Succeeded(last.tr, "PdhAddCounterA:util")) =>
                 /\ Len(ups) = UTIL_COUNTER_PATHS
                 /\ Succeeded(last.tr, "PdhCloseQuery") /\ QueryHandle = NULL
                 /\ last.ret < 0
            /\ last.ret = 0 <=> FallbackOk(last.tr)
\* with no memory counter handle, the counter backend reports memory_used 0
MissingMemoryGivesZero ==
    (FallbackActive /\ MemoryCounter = NULL /\ ~crashed) => \A r \in Emitted : r.memory_used = 0

\* C24: in the AMD and Intel backends init_performance_counters tries the
\* utilization paths in their order and stops at the first that registers;
\* the counter backend comes up if and only if the query opened and a
\* utilization path registered, whether or not a memory path registered; when
\* no utilization path registers the query is closed, the handle is NULL and
\* the function fails; a gpu_init in which no memory path registers leaves
\* the memory counter handle NULL when it was NULL before, and while that
\* handle is NULL every memory_used of the counter backend is 0.
C24_FallbackNeedsUtilizationOnly ==
    [][CallStep =>
         /\ FallbackInitOutcome'
         /\ MissingMemoryGivesZero'
         /\ (backend \in {"amd", "intel"} /\ InitStep /\ MemoryCounter = NULL
             /\ FallbackOk(last'.tr) /\ ~Succeeded(last'.tr, "PdhAddCounterA:memory")) =>
                (MemoryCounter' = NULL /\ last'.ret = 0 /\ PerfFlag')]_vars
\* a snapshot of a counter session that came up without a memory counter
C24_Witness ==
    /\ FallbackActive /\ session = "ok" /\ paired /\ MemoryCounter = NULL
    /\ Emitted # {} /\ \A r \in Emitted : r.memory_used = 0

\* C25 as stated: while the counter backend is active, every counter value a
\* gpu_get_info_json reads (utilization and memory) is read after a
\* PdhCollectQueryData issued by that same call.
C25_ValuesFromOwnCollection ==
    (FallbackActive /\ last.op = "gpu_get_info_json" /\ ~crashed) =>
        \A j \in Positions(last.tr, "PdhGetFormattedCounterValue:util")
                   \cup Positions(last.tr, "PdhGetFormattedCounterValue:memory") :
            \E c \in Positions(last.tr, "PdhCollectQueryData") : c < j

\* C26 as stated: in every backend, when gpu_init returns a negative value no
\* library remains loaded and no counter query remains open: the library
\* handle and the query handle are NULL and nothing is held from the platform.
C26_FailedInitHoldsNothing ==
    (paired /\ last.op = "gpu_init" /\ last.ret < 0) =>
        (LibHandle = NULL /\ QueryHandle = NULL /\ ~Holds(os))

\* the tokens between the opening and the closing bracket of a document are
\* records separated by single commas: record, comma, record, ...
WellFormedArray(doc) ==
    /\ Len(doc) >= 2
    /\ doc[1].kind = "open" /\ doc[Len(doc)].kind = "close"
    /\ \A j \in 2..(Len(doc) - 1) :
         doc[j].kind = (IF j % 2 = 0 THEN "record" ELSE "comma")
    /\ doc[Len(doc) - 1].kind # "comma"

\* C27 as stated: in the AMD and NVIDIA backends every document
\* gpu_get_info_json returns has its records separated by exactly one comma,
\* with no comma directly after the opening bracket or directly before the
\* closing bracket, whichever devices' records were skipped.
C27_ArrayWellFormed ==
    (backend \in {"amd", "nvidia"} /\ last.op = "gpu_get_info_json" /\ ~crashed
     /\ last.doc # NoDoc) => WellFormedArray(last.doc)


\* ------------------------------------------------- the JSON buffer, in bytes
\* gpu_get_info_json of the AMD and NVIDIA backends allocates json_buffer once,
\* from the device count, and then appends to it with strcpy and strcat.  The
\* actions below follow that arithmetic one loop turn at a time; the byte
\* constants are the code's, the width of int and unsigned int is scaled.
SizeBits == 14       \* scaled width of int and unsigned int in the buffer_size arithmetic

JSON_BASE_BYTES == 1024      \* the constant part of buffer_size
AMD_RECORD_BYTES == 1024     \* buffer_size per device, and sizeof(gpu_info_str)
NVIDIA_RECORD_BYTES == 512   \* buffer_size per device, and sizeof(gpu_info)
OPEN_BYTES == 9              \* strlen("{\"gpus\":[")
CLOSE_BYTES == 2             \* strlen("]}")
AMD_MIN_RECORD == 150        \* the record's format with an empty name and one-digit numbers
NVIDIA_MIN_RECORD == 149

UIntMod == 2 ^ SizeBits
SizeIntMax == (UIntMod \div 2) - 1
SizeTMod == UIntMod * UIntMod

\* device counts a vendor library may report, up to the first count whose
\* product with 512 no longer fits an unsigned int
MaxReported == UIntMod \div NVIDIA_RECORD_BYTES

\* conversion of an int to size_t
ToSizeT(x) == x % SizeTMod

\* an int result brought back into the range of int (two's complement)
WrapInt(x) ==
    LET r == x % UIntMod
    IN  IF r > SizeIntMax THEN r - UIntMod ELSE r

\* size_t buffer_size = 1024 + (device_count * 512), device_count an unsigned
\* int: the product and the sum are unsigned int arithmetic
nvidia_buffer_size(device_count) ==
    (JSON_BASE_BYTES + ((device_count * NVIDIA_RECORD_BYTES) % UIntMod)) % UIntMod

\* size_t buffer_size = 1024 + (device_count * 1024), device_count an int: the
\* product and the sum are int arithmetic; when they overflow the behaviour is
\* undefined, and a build either wraps the int or computes in a wider register
amd_buffer_size(device_count) ==
    LET exact == JSON_BASE_BYTES + (device_count * AMD_RECORD_BYTES)
    IN  IF exact <= SizeIntMax
        THEN {exact}
        ELSE {ToSizeT(WrapInt(exact)), exact}

\* lengths snprintf(gpu_info_str, sizeof(gpu_info_str), ...) may leave
AmdRecordLengths == {AMD_MIN_RECORD, AMD_RECORD_BYTES - 1}
\* lengths snprintf(gpu_info, sizeof(gpu_info), ...) may leave
NvidiaRecordLengths == {NVIDIA_MIN_RECORD, NVIDIA_RECORD_BYTES - 1}

\* the document under construction: written counts the terminating NUL
Buffer(p, n, size, i, w) ==
    [phase |-> p, device_count |-> n, buffer_size |-> size, i |-> i, written |-> w]

\* bytes were written past the end of json_buffer
Overflowed(b) == b.phase \in {"open", "closed"} /\ b.written > b.buffer_size

\* gpu_get_info_json of amd/gpu_usage.c up to strcpy(json_buffer, "{\"gpus\":[")
AmdJsonBufferAllocate ==
    /\ backend = "amd" /\ json_buffer.phase = "none"
    /\ \E device_count \in 0..MaxReported, malloc_ok \in BOOLEAN :
         \E buffer_size \in amd_buffer_size(device_count) :
             json_buffer' =
                 IF device_count <= 0 \/ ~malloc_ok
                 THEN Buffer("null", device_count, 0, 0, 0)
                 ELSE Buffer("open", device_count, buffer_size, 0, OPEN_BYTES + 1)
    /\ UNCHANGED <<backend, amd, intel, nvidia, os, last, crashed, session, paired,
                   heldAtInit, nInits, nCalls>>

\* one turn of the device loop of amd/gpu_usage.c: the comma, then the record
AmdJsonBufferAppend ==
    /\ backend = "amd" /\ json_buffer.phase = "open" /\ ~Overflowed(json_buffer)
    /\ json_buffer.i < json_buffer.device_count
    /\ \E len \in AmdRecordLengths :
         json_buffer' = [json_buffer EXCEPT
             !.written = @ + (IF json_buffer.i > 0 THEN 1 ELSE 0) + len,
             !.i = @ + 1]
    /\ UNCHANGED <<backend, amd, intel, nvidia, os, last, crashed, session, paired,
                   heldAtInit, nInits, nCalls>>

\* gpu_get_info_json of nvidia/gpu_usage.c up to strcpy(json_buffer, "{\"gpus\":[")
NvidiaJsonBufferAllocate ==
    /\ backend = "nvidia" /\ json_buffer.phase = "none"
    /\ \E device_count \in 0..MaxReported, malloc_ok \in BOOLEAN :
         json_buffer' =
             IF ~malloc_ok
             THEN Buffer("null", device_count, 0, 0, 0)
             ELSE Buffer("open", device_count, nvidia_buffer_size(device_count), 0,
                         OPEN_BYTES + 1)
    /\ UNCHANGED <<backend, amd, intel, nvidia, os, last, crashed, session, paired,
                   heldAtInit, nInits, nCalls>>

\* one turn of the device loop of nvidia/gpu_usage.c: a device whose handle
\* lookup fails is skipped, another adds the comma and the record
NvidiaJsonBufferAppend ==
    /\ backend = "nvidia" /\ json_buffer.phase = "open" /\ ~Overflowed(json_buffer)
    /\ json_buffer.i < json_buffer.device_count
    /\ \E handle_ok \in BOOLEAN, len \in NvidiaRecordLengths :
         json_buffer' = [json_buffer EXCEPT
             !.written = IF handle_ok
                         THEN @ + (IF json_buffer.i > 0 THEN 1 ELSE 0) + len
                         ELSE @,
             !.i = @ + 1]
    /\ UNCHANGED <<backend, amd, intel, nvidia, os, last, crashed, session, paired,
                   heldAtInit, nInits, nCalls>>

\* strcat(json_buffer, "]}") after the loop, in both backends
JsonBufferClose ==
    /\ backend \in {"amd", "nvidia"}
    /\ json_buffer.phase = "open" /\ ~Overflowed(json_buffer)
    /\ json_buffer.i = json_buffer.device_count
    /\ json_buffer' = [json_buffer EXCEPT !.phase = "closed", !.written = @ + CLOSE_BYTES]
    /\ UNCHANGED <<backend, amd, intel, nvidia, os, last, crashed, session, paired,
                   heldAtInit, nInits, nCalls>>

BufferNext ==
    \/ AmdJsonBufferAllocate
    \/ AmdJsonBufferAppend
    \/ NvidiaJsonBufferAllocate
    \/ NvidiaJsonBufferAppend
    \/ JsonBufferClose

BufferSpec == Init /\ [][BufferNext]_vars

\* C28: in gpu_get_info_json of the AMD and NVIDIA backends the bytes written
\* to json_buffer (opening text, records, commas, closing text and the
\* terminating NUL) never exceed the allocated buffer_size, for every device
\* count and every record length the snprintf bound allows
C28_BufferNeverOverflows == ~Overflowed(json_buffer)


\* the vendor call that samples a device's statistics
StatsCall == IF backend = "amd" THEN "agsGetGPUMemoryUsage" ELSE "igcl_get_device_stats"
\* record r has the defaults in the four fields a statistics sample supplies
AllDefaults(r) ==
    /\ r.memory_used = 0
    /\ r.gpu_utilization = 0
    /\ r.temperature[1] = 0
    /\ r.power_usage[1] = 0

\* C29: in a vendor session of the AMD or Intel backend (no performance
\* counters registered) the memory_used, gpu_utilization, temperature and
\* power_usage of an emitted record come from one statistics sample: when a
\* statistics call fails for the record's device, all four fields have their
\* defaults together.
C29_RecordFromOneSample ==
    (backend \in {"amd", "intel"} /\ VendorFlag /\ session = "ok" /\ paired /\ ~PerfFlag) =>
        \A r \in Emitted : FailedFor(last.tr, StatsCall, r.index) => AllDefaults(r)

====
